---- MODULE Spec2Model ----
(***************************************************************************)
(* Model of the tempest-exporter decode pipeline (src/src/decoder.rs,      *)
(* src/src/reader.rs): raw Tempest messages are converted to domain        *)
(* messages by TempestMsg::try_from, and decoder::new wraps an upstream    *)
(* stream of raw messages in a filter_map that drops undecodable ones.     *)
(* Further parts: Perishable (src/src/perishable.rs), a value with an      *)
(* expiry written by the ingest path and read by the scrape path; the      *)
(* derived quantities of an Observation (decoder.rs); the Exporter         *)
(* (src/src/exporter.rs), which sets perishable metrics from the messages  *)
(* it handles and registers the fresh ones at a scrape; the message pump   *)
(* of main (src/src/main.rs) and its shutdown signal; the Receiver          *)
(* (src/src/receiver.rs) and the reader (src/src/reader.rs) under the      *)
(* decoded stream, with the startup loop of main; the Publisher's message  *)
(* channel and shutdown (src/src/publisher.rs).                            *)
(*                                                                         *)
(* Representation of values                                                *)
(*   Option<T>   a sequence of length 0 (None) or 1 (Some(v)).             *)
(*   f64         an integer count of twentieths (30 stands for 1.5), so    *)
(*               that the `as i64` casts of the decoder truncate something *)
(*               and -273.15 (5463 twentieths below zero) is a value.      *)
(*   i64, i32    integers.                                                 *)
(*   u32         the set of positions of its one-bits (0..31).             *)
(*   String      a sequence of one-character strings.                      *)
(*   DateTime    seconds since the epoch; Duration: a number of seconds.   *)
(***************************************************************************)
EXTENDS Integers, Sequences, FiniteSets, TLC

VARIABLES raw,       \* the raw message last handed to TempestMsg::try_from
          res,       \* the Result of that try_from (NotRun before the call)
          rawIn,     \* raw messages the upstream stream has yielded so far
          decOut,    \* domain messages the decoded stream has yielded so far
          dropLog,   \* raw messages logged as "Dropped undecodable message"
          rawEnded,  \* history: the upstream stream has returned None to
                     \* a poll (it may yield items to later polls)
          decEnded   \* history: the decoded stream has returned None to a
                     \* poll

VARIABLES now,       \* the monotonic clock read by Instant::now()
          ticks      \* how many times the clock has advanced

\* one Perishable<T> cell, its writer (ingest path) and its reader (scrape)
VARIABLES pExpiry,   \* content of the AtomicCell<Instant> (self.1)
          pValue,    \* the gauges of the wrapped value (self.0), with their origin
          pStored,   \* history: every expiry written by new or a whole freshen
          pLast,     \* history: the last freshen call whose store completed
          wPc,       \* writer: "idle", "store" (inside the store of freshen),
                     \*         "set"
          wAt,       \* writer: the Instant::now() read by the freshen call
          wDur,      \* writer: the valid_duration of the freshen call
          wPending,  \* writer: contents the store has still to write
          wMsgs,     \* writer: freshen calls begun so far
          rPc,       \* reader: "idle", "wait" (inside load), "now", "value",
                     \*         "done"
          rExp,      \* reader: the expiry self.1.load() returned
          rNow,      \* reader: the Instant::now() it compared against
          rFresh,    \* reader: whether fresh() returned Some
          rOut,      \* reader: the gauge samples the scrape has taken
          rLast,     \* history: pLast at the moment of the reader's load
          rGap       \* history: a sample was taken between a freshen and its last set

\* the derived quantities of one Observation
VARIABLES dElev,     \* the station elevation handed to barometric_pressure
          dOut       \* the six derived quantities (NotRun before the calls)

\* the Exporter: its metrics, the handle_report and the encode under way
VARIABLES xElev,     \* station_params.elevation
          xCells,    \* the Perishable cells: expiry, gauge value, freshen count
          xReceived, \* exporter_messages_received, by "type" label
          xPlain,    \* the metrics that are not perishable
          xReports,  \* handle_report calls so far
          xTodo,     \* the steps the handle_report under way has still to do
          xMsg,      \* history: the message of the last handle_report
          xLastIn,   \* history: per cell, the last freshen call: the report
                     \* that made it and the Instant::now() it read
          xScrape    \* the encode() under way: the cells register_all has
                     \* still to look at, the expiry it has loaded, the cells
                     \* whose metrics it has registered

\* the message pump task of main, the shutdown signal and the publisher
VARIABLES mPc,         \* pump: "unspawned", "await", "exporter" (about to
                       \*       call), "exporting" (inside the call),
                       \*       "publisher", "publishing", "check",
                       \*       "stopped" (left the loop), "cancelled",
                       \*       "panicked" (dec.next() panicked)
          mMsg,        \* pump: the message dec.next() returned, being handled
          mSignal,     \* message_pump_shutdown: "unsent", "sent", "received"
          mainPc,      \* main: "startup_await", "startup_exporter",
                       \*       "startup_exporting", "startup_publisher",
                       \*       "startup_publishing", "startup_check",
                       \*       "online" (startup loop left), "select",
                       \*       "signalled" (both signals sent), "sleeping"
                       \*       (publisher.shutdown() called), "exited",
                       \*       "panicked"
          pHandled,    \* history: messages passed to Publisher::handle_report
          mTaken,      \* history: messages the pump took from the stream
          mTakenAfter, \* history: how many of them after the signal was sent
          mSentAt      \* history: where the pump was when the signal was sent

\* main before the pump is spawned, and the Receiver under the streams
VARIABLES sMsg,        \* startup loop: the message dec.next() returned
          alive,       \* startup loop: the local `alive`
          serverUp,    \* the metrics server task has been spawned
          sockIn,      \* history: what poll_recv_from returned Ready with
          rxEnds       \* history: why Receiver::poll_next returned None

\* the Publisher: its message channel, its sink task and its shutdown
VARIABLES qMsgs,       \* messages in the mpsc channel, oldest first
          qClosed,     \* the channel's receiver has been dropped
          shutdownTx,  \* shutdown_tx: Some(sender) until shutdown takes it
          sigCount,    \* history: shutdown signals sent over the oneshot
          sinkGot,     \* history: messages message_rx.recv() returned
          pSends,      \* history: MsgSender::send calls so far
          pShutdowns,  \* history: Publisher::shutdown calls so far
          pLastSend,   \* history: outcome of the last MsgSender::send
          pDropped,    \* history: the messages try_send did not take
          pTodo        \* the sends the handle_report under way has still to
                       \* make

decVars   == <<raw, res, rawIn, decOut, dropLog, rawEnded, decEnded>>
clockVars == <<now, ticks>>
perVars   == <<pExpiry, pValue, pStored, pLast, wPc, wAt, wDur, wPending,
               wMsgs, rPc, rExp, rNow, rFresh, rOut, rLast, rGap>>

derVars   == <<dElev, dOut>>
expVars   == <<xElev, xCells, xReceived, xPlain, xReports, xTodo, xMsg,
               xLastIn, xScrape>>

pumpVars  == <<mPc, mMsg, mSignal, mainPc, pHandled, mTaken, mTakenAfter,
               mSentAt>>

mainVars  == <<sMsg, alive, serverUp, sockIn, rxEnds>>
pubVars   == <<qMsgs, qClosed, shutdownTx, sigCount, sinkGot, pSends,
               pShutdowns, pLastSend, pDropped, pTodo>>

vars == <<decVars, clockVars, perVars, derVars, expVars, pumpVars, mainVars,
          pubVars>>

\* what the steps of each specification leave alone
notDecVars == <<clockVars, perVars, derVars, expVars, pumpVars, mainVars,
                pubVars>>
notPerVars == <<decVars, derVars, expVars, pumpVars, mainVars, pubVars>>
notDerVars == <<clockVars, perVars, expVars, pumpVars, mainVars, pubVars>>
notExpVars == <<decVars, perVars, derVars, pumpVars, mainVars, pubVars>>
notMainVars == <<clockVars, perVars, derVars, pubVars>>
notPubVars == <<decVars, clockVars, perVars, derVars, expVars, pumpVars,
                mainVars>>

(***************************************************************************)
(* Bounds of the model.                                                    *)
(***************************************************************************)
MaxStream  == 3   \* raw messages the upstream yields in one run
MaxTokens  == 3   \* comma-separated tokens in a reset_flags string
MaxBitsSet == 2   \* one-bits (or zero-bits) in a sensor_status field
MaxAbsent  == 3   \* absent (or present) slots in a raw observation
MaxTicks   == 1   \* advances of the clock in one run
MaxFreshens == 2  \* freshen calls on the cell of SpecPerishable in one run
MaxReports == 2   \* messages the Exporter handles in one run of SpecExport
MaxHandled == 1   \* messages the Exporter handles in one run of SpecHandle

(***************************************************************************)
(* Option and numeric helpers.                                             *)
(***************************************************************************)
None == <<>>
Some(v) == <<v>>
IsSome(o) == o # <<>>
Unwrap(o) == o[1]

\* the clock and the perishable cell where a specification does not use them
ClockUnused == now = 0 /\ ticks = 0
PerishableUnused ==
    /\ pExpiry = 0 /\ pValue = None /\ pStored = {} /\ pLast = None
    /\ wPc = "idle" /\ wAt = 0 /\ wDur = 0 /\ wPending = <<>> /\ wMsgs = 0
    /\ rPc = "idle" /\ rExp = 0 /\ rNow = 0 /\ rFresh = FALSE /\ rOut = None
    /\ rLast = None /\ rGap = FALSE
DeriveUnused == dElev = 0 /\ dOut = <<>>
ExporterUnused ==
    /\ xElev = 0 /\ xCells = <<>> /\ xReceived = <<>> /\ xPlain = <<>>
    /\ xReports = 0 /\ xTodo = <<>> /\ xMsg = <<>> /\ xLastIn = <<>>
    /\ xScrape = <<>>
PumpUnused ==
    /\ mPc = "await" /\ mMsg = <<>> /\ mSignal = "unsent" /\ mainPc = "select"
    /\ pHandled = <<>> /\ mTaken = <<>> /\ mTakenAfter = 0 /\ mSentAt = "none"
MainUnused ==
    /\ sMsg = <<>> /\ alive = FALSE /\ serverUp = FALSE
    /\ sockIn = <<>> /\ rxEnds = <<>>
PublisherUnused ==
    /\ qMsgs = <<>> /\ qClosed = FALSE /\ shutdownTx = <<>> /\ sigCount = 0
    /\ sinkGot = <<>> /\ pSends = 0 /\ pShutdowns = 0 /\ pLastSend = <<>>
    /\ pDropped = {} /\ pTodo = <<>>

\* Result<T, (Raw, anyhow::Error)>; NotRun: try_from has not been called yet
Ok(m) == [tag |-> "Ok", msg |-> m]
Err(r, e) == [tag |-> "Err", raw |-> r, err |-> e]
NotRun == [tag |-> "NotRun"]
IsOk(r) == r.tag = "Ok"
IsErr(r) == r.tag = "Err"

\* a call that panics returns nothing: the panic unwinds through its
\* callers (try_from, the filter_map closure, the poll of the stream) and
\* ends the task that polled
Panic == [tag |-> "Panic"]
IsPanic(r) == r = Panic

\* The integers the model checker holds end at 2^31 - 1.  The i64 values of
\* the model are the integers of small magnitude, all of them within the
\* ranges chrono accepts, and three that stand for values beyond them:
\* I64.MAX and I64.MIN for i64::MAX and i64::MIN, and I64.FAR for
\* 9000000000000, which is a number of seconds past the last timestamp
\* chrono takes and within the Durations it takes.  The f64 values are the
\* small counts of twentieths and F64.HUGE and F64.NEG_HUGE, which stand
\* for 1e300 and -1e300.
I64 == [MAX |-> 2147483647, MIN |-> -2147483647, FAR |-> 2147483000]
F64 == [HUGE |-> 2147483646, NEG_HUGE |-> -2147483646]

\* f64 `as i64`: truncation toward zero of a value counted in twentieths,
\* saturating at the ends of i64.
AsI64(x) ==
    IF x = F64.HUGE THEN I64.MAX
    ELSE IF x = F64.NEG_HUGE THEN I64.MIN
    ELSE IF x >= 0 THEN x \div 20 ELSE -((-x) \div 20)

\* chrono's range checks over the model's i64 values: from_timestamp takes
\* -8334601228800 <= secs < 8210298412800; Duration::seconds takes
\* |n| <= i64::MAX / 1000 and Duration::minutes the n whose 60 n is in that
\* range (the casts of the model's f64 values never give I64.FAR)
InTimestampRange(n) == n \notin {I64.MAX, I64.MIN, I64.FAR}
InDurationRange(n) == n \notin {I64.MAX, I64.MIN}

\* DateTime::from_utc(NaiveDateTime::from_timestamp(secs, 0), Utc): Ok of
\* the seconds since the epoch, or the panic "invalid or out-of-range
\* datetime"
DateTimeFromTimestamp(secs) ==
    IF InTimestampRange(secs) THEN Ok(secs) ELSE Panic
\* chrono::Duration::seconds / Duration::minutes: Ok of a number of
\* seconds, or the panic "out of bounds"
DurationSeconds(n) == IF InDurationRange(n) THEN Ok(n) ELSE Panic
DurationMinutes(n) == IF InDurationRange(n) THEN Ok(60 * n) ELSE Panic

(***************************************************************************)
(* decoder.rs: the variants whose conversion is a From: it returns the     *)
(* value, or panics in chrono.                                             *)
(***************************************************************************)
\* Wind::new
WindNew(speed, dir) == [speed_magnitude |-> speed, source_direction |-> dir]

\* impl From<reader::RawPrecipEvent> for PrecipEvent
PrecipEventFrom(r) ==
    LET timestamp == DateTimeFromTimestamp(r.evt[1])
    IN  IF IsPanic(timestamp) THEN Panic
        ELSE [timestamp |-> timestamp.msg]

\* impl From<reader::RawStrikeEvent> for StrikeEvent
StrikeEventFrom(r) ==
    LET timestamp == DateTimeFromTimestamp(r.evt[1])
    IN  IF IsPanic(timestamp) THEN Panic
        ELSE [timestamp |-> timestamp.msg,
              distance  |-> r.evt[2],
              energy    |-> r.evt[3]]

\* impl From<reader::RawRapidWind> for RapidWind
RapidWindFrom(r) ==
    LET timestamp == DateTimeFromTimestamp(r.ob[1])
    IN  IF IsPanic(timestamp) THEN Panic
        ELSE [timestamp |-> timestamp.msg,
              wind      |-> WindNew(r.ob[2], r.ob[3])]

(***************************************************************************)
(* decoder.rs: impl TryFrom<reader::RawObservation> for Observation.       *)
(* obs is the single row raw.obs[0]: a function from 0..17 to Option<f64>,  *)
(* each slot being matched against Some / None (or taken with `?`) by the  *)
(* conversion.  (reader.rs declares the row as [f64; 18]; the conversion   *)
(* of decoder.rs is modelled on the slots as it matches them.)  The wind   *)
(* closure returns Ok of its Option, or panics in Duration::seconds.       *)
(***************************************************************************)
\* a wind closure that does not wait for the interval slot
ObsWindNoInterval(obs) ==
    IF IsSome(obs[4]) /\ IsSome(obs[1]) /\ IsSome(obs[2]) /\ IsSome(obs[3])
    THEN LET wind_dir == Unwrap(obs[4])
             interval == IF IsSome(obs[5])
                         THEN DurationSeconds(AsI64(Unwrap(obs[5])))
                         ELSE Ok(0)
         IN  IF IsPanic(interval) THEN Panic
             ELSE Ok(Some([lull     |-> WindNew(Unwrap(obs[1]), wind_dir),
                           avg      |-> WindNew(Unwrap(obs[2]), wind_dir),
                           gust     |-> WindNew(Unwrap(obs[3]), wind_dir),
                           interval |-> interval.msg]))
    ELSE Ok(None)

\* the closure building Option<WindObservation>
ObsWind(obs) ==
    IF IsSome(obs[4]) /\ IsSome(obs[1]) /\ IsSome(obs[2])
       /\ IsSome(obs[3]) /\ IsSome(obs[5])
    THEN LET wind_dir == Unwrap(obs[4])
             interval == DurationSeconds(AsI64(Unwrap(obs[5])))
         IN  IF IsPanic(interval) THEN Panic
             ELSE Ok(Some([lull     |-> WindNew(Unwrap(obs[1]), wind_dir),
                           avg      |-> WindNew(Unwrap(obs[2]), wind_dir),
                           gust     |-> WindNew(Unwrap(obs[3]), wind_dir),
                           interval |-> interval.msg]))
    ELSE Ok(None)

\* the closure building Option<SolarObservation>
ObsSolar(obs) ==
    IF IsSome(obs[9]) /\ IsSome(obs[10]) /\ IsSome(obs[11])
    THEN Some([illuminance       |-> Unwrap(obs[9]),
               ultraviolet_index |-> Unwrap(obs[10]),
               irradiance        |-> Unwrap(obs[11])])
    ELSE None

\* the closure building precip_obs: Option<(f64, i64)>
ObsPrecipObs(obs) ==
    IF IsSome(obs[12]) /\ IsSome(obs[13])
    THEN Some(<<Unwrap(obs[12]), AsI64(Unwrap(obs[13]))>>)
    ELSE None

\* a match whose `other` arm falls back to PrecipKind::None
PrecipKindOfLenient(kind_raw) ==
    CASE kind_raw = 1 -> Some("Rain")
      [] kind_raw = 2 -> Some("Hail")
      [] kind_raw = 3 -> Some("RainHail")
      [] OTHER        -> Some("None")

\* the match on kind_raw; None stands for the `other` arm
PrecipKindOf(kind_raw) ==
    CASE kind_raw = 0 -> Some("None")
      [] kind_raw = 1 -> Some("Rain")
      [] kind_raw = 2 -> Some("Hail")
      [] kind_raw = 3 -> Some("RainHail")
      [] OTHER        -> None

\* the closure building Option<LightningObservation>
ObsLightning(obs) ==
    IF IsSome(obs[14]) /\ IsSome(obs[15])
    THEN Some([average_distance |-> Unwrap(obs[14]),
               count            |-> AsI64(Unwrap(obs[15]))])
    ELSE None

\* a required slot: `match raw.obs[0][i] { Some(v) => .., None => return Err(..) }`
ObsRequired(obs, i) == obs[i]

\* an error path that has taken the precipitation slot out of the raw record
ObsErrTakesPrecip(r, e) == Err([r EXCEPT !.obs[13] = None], e)

\* `return Err((raw, anyhow!(..)))`: the raw observation goes back as it came
ObsErr(r, e) == Err(r, e)

\* the statements of try_from in their order: the timestamp (an error, or a
\* panic in from_timestamp), the wind closure (a panic in Duration::seconds),
\* the precipitation kind, then the fields of Self with battery_volts and
\* report_interval last (an error, or a panic in Duration::minutes)
ObservationTryFrom(r) ==
    LET obs        == r.obs
        precip_obs == ObsPrecipObs(obs)
        timestamp  ==
            DateTimeFromTimestamp(AsI64(Unwrap(ObsRequired(obs, 0))))
        wind       == ObsWind(obs)
        report_interval ==
            DurationMinutes(AsI64(Unwrap(ObsRequired(obs, 17))))
    IN  IF ~IsSome(ObsRequired(obs, 0))
        THEN ObsErr(r, "Missing observation timestamp")
        ELSE IF IsPanic(timestamp) THEN Panic
        ELSE IF IsPanic(wind) THEN Panic
        ELSE IF IsSome(precip_obs) /\ ~IsSome(PrecipKindOf(Unwrap(precip_obs)[2]))
        THEN ObsErr(r, "Unrecognized precip type")
        ELSE IF ~IsSome(ObsRequired(obs, 16))
        THEN ObsErr(r, "Missing battery voltage")
        ELSE IF ~IsSome(ObsRequired(obs, 17))
        THEN ObsErr(r, "Missing report interval")
        ELSE IF IsPanic(report_interval) THEN Panic
        ELSE Ok([timestamp         |-> timestamp.msg,
                 wind              |-> wind.msg,
                 station_pressure  |-> obs[6],
                 air_temperature   |-> obs[7],
                 relative_humidity |-> obs[8],
                 solar             |-> ObsSolar(obs),
                 precip            |->
                     IF IsSome(precip_obs)
                     THEN Some([quantity_last_minute |-> Unwrap(precip_obs)[1],
                                kind |-> Unwrap(PrecipKindOf(Unwrap(precip_obs)[2]))])
                     ELSE None,
                 lightning         |-> ObsLightning(obs),
                 battery_volts     |-> Unwrap(ObsRequired(obs, 16)),
                 report_interval   |-> report_interval.msg])

(***************************************************************************)
(* decoder.rs: impl From<u32> for SensorStatus.  A mask literal of the     *)
(* source is an integer; the field is the set of its one-bit positions, so *)
(* `field & mask != 0` holds iff a one-bit of the mask is in the field.    *)
(***************************************************************************)
RECURSIVE BitsFrom(_, _)
BitsFrom(n, k) ==
    IF n = 0 THEN {}
    ELSE (IF n % 2 = 1 THEN {k} ELSE {}) \cup BitsFrom(n \div 2, k + 1)
BitsOf(n) == BitsFrom(n, 0)

AndNonZero(field, mask) == field \cap BitsOf(mask) # {}

\* a decoder with a slip in one mask: 0x1000 for power_booster_shore_power
SensorStatusFromWrongMask(field) ==
    [lightning_failure         |-> AndNonZero(field, 1),
     lightning_noise           |-> AndNonZero(field, 2),
     lightning_disturber       |-> AndNonZero(field, 4),
     pressure_failed           |-> AndNonZero(field, 8),
     temperature_failed        |-> AndNonZero(field, 16),
     humidity_failed           |-> AndNonZero(field, 32),
     wind_failed               |-> AndNonZero(field, 64),
     precip_failed             |-> AndNonZero(field, 128),
     irradiance_failed         |-> AndNonZero(field, 256),
     power_booster_depleted    |-> AndNonZero(field, 32768),
     power_booster_shore_power |-> AndNonZero(field, 4096)]

SensorStatusFrom(field) ==
    [lightning_failure         |-> AndNonZero(field, 1),
     lightning_noise           |-> AndNonZero(field, 2),
     lightning_disturber       |-> AndNonZero(field, 4),
     pressure_failed           |-> AndNonZero(field, 8),
     temperature_failed        |-> AndNonZero(field, 16),
     humidity_failed           |-> AndNonZero(field, 32),
     wind_failed               |-> AndNonZero(field, 64),
     precip_failed             |-> AndNonZero(field, 128),
     irradiance_failed         |-> AndNonZero(field, 256),
     power_booster_depleted    |-> AndNonZero(field, 32768),
     power_booster_shore_power |-> AndNonZero(field, 65536)]

\* impl From<reader::RawDeviceStatus> for DeviceStatus
DeviceStatusFrom(r) ==
    LET timestamp == DateTimeFromTimestamp(r.timestamp)
        uptime    == DurationSeconds(r.uptime)
    IN  IF IsPanic(timestamp) THEN Panic
        ELSE IF IsPanic(uptime) THEN Panic
        ELSE [serial_number     |-> r.serial_number,
              hub_serial_number |-> r.hub_sn,
              timestamp         |-> timestamp.msg,
              uptime            |-> uptime.msg,
              voltage           |-> r.voltage,
              firmware_revision |-> r.firmware_revision,
              rssi              |-> r.rssi,
              hub_rssi          |-> r.hub_rssi,
              sensor_status     |-> SensorStatusFrom(r.sensor_status),
              debug             |-> (r.debug = 1)]

(***************************************************************************)
(* decoder.rs: impl FromStr for ResetFlags.                                *)
(***************************************************************************)
BOR    == <<"B", "O", "R">>
PIN    == <<"P", "I", "N">>
POR    == <<"P", "O", "R">>
SFT    == <<"S", "F", "T">>
WDG    == <<"W", "D", "G">>
WWD    == <<"W", "W", "D">>
LPW    == <<"L", "P", "W">>
HRDFLT == <<"H", "R", "D", "F", "L", "T">>

\* ResetFlags::default()
ResetFlagsDefault ==
    [brownout |-> FALSE, pin |-> FALSE, power_on |-> FALSE, software |-> FALSE,
     watchdog |-> FALSE, window_watchdog |-> FALSE, low_power |-> FALSE,
     hard_fault |-> FALSE]

\* str::split(','): the pieces between commas; "" splits into one empty piece
RECURSIVE SplitComma(_)
SplitComma(s) ==
    IF \A i \in 1..Len(s) : s[i] # ","
    THEN <<s>>
    ELSE LET i == CHOOSE k \in 1..Len(s) :
                      s[k] = "," /\ \A j \in 1..(k - 1) : s[j] # ","
         IN  <<SubSeq(s, 1, i - 1)>> \o SplitComma(SubSeq(s, i + 1, Len(s)))

\* the body of the for loop: one match on a label
RECURSIVE FromStrLoop(_, _)
FromStrLoop(labels, new) ==
    IF labels = <<>> THEN Ok(new)
    ELSE LET label == Head(labels)
             rest  == Tail(labels)
         IN  CASE label = BOR    -> FromStrLoop(rest, [new EXCEPT !.brownout = TRUE])
               [] label = PIN    -> FromStrLoop(rest, [new EXCEPT !.pin = TRUE])
               [] label = POR    -> FromStrLoop(rest, [new EXCEPT !.power_on = TRUE])
               [] label = SFT    -> FromStrLoop(rest, [new EXCEPT !.software = TRUE])
               [] label = WDG    -> FromStrLoop(rest, [new EXCEPT !.watchdog = TRUE])
               [] label = WWD    -> FromStrLoop(rest, [new EXCEPT !.window_watchdog = TRUE])
               [] label = LPW    -> FromStrLoop(rest, [new EXCEPT !.low_power = TRUE])
               [] label = HRDFLT -> FromStrLoop(rest, [new EXCEPT !.hard_fault = TRUE])
               [] OTHER          -> Err(label, "Unrecognized reset flag label")

\* a parser that looks at the first label only
ResetFlagsFromStrFirstOnly(s) ==
    FromStrLoop(<<Head(SplitComma(s))>>, ResetFlagsDefault)

\* a parser that starts from the default again at every label
ResetFlagsFromStrLastWins(s) ==
    LET labels == SplitComma(s)
        all    == FromStrLoop(labels, ResetFlagsDefault)
    IN  IF IsErr(all) THEN all
        ELSE FromStrLoop(<<labels[Len(labels)]>>, ResetFlagsDefault)

ResetFlagsFromStr(s) == FromStrLoop(SplitComma(s), ResetFlagsDefault)

\* impl TryFrom<reader::RawHubStatus> for HubStatus
HubStatusTryFrom(r) ==
    LET parsed    == ResetFlagsFromStr(r.reset_flags)
        uptime    == DurationSeconds(r.uptime)
        timestamp == DateTimeFromTimestamp(r.uptime)
    IN  IF IsErr(parsed)
        THEN Err(r, parsed.err)
        ELSE IF IsPanic(uptime) THEN Panic
        ELSE IF IsPanic(timestamp) THEN Panic
        ELSE Ok([serial_number     |-> r.serial_number,
                 firmware_revision |-> r.firmware_revision,
                 uptime            |-> uptime.msg,
                 rssi              |-> r.rssi,
                 timestamp         |-> timestamp.msg,
                 reset_flags       |-> parsed.msg,
                 seq               |-> r.seq])

(***************************************************************************)
(* decoder.rs: impl TryFrom<RawTempestMsg> for TempestMsg.  A message of   *)
(* either enum is a record of its variant name and its payload.            *)
(***************************************************************************)
RM(variant, payload) == [variant |-> variant, payload |-> payload]
TM(variant, payload) == [variant |-> variant, payload |-> payload]

\* .map_err(|(r, e)| (RM::V(r), e)).map(TM::V), reached only when try_from
\* returned
MapErrMap(result, variant) ==
    IF IsPanic(result) THEN Panic
    ELSE IF IsErr(result)
    THEN Err(RM(variant, result.raw), result.err)
    ELSE Ok(TM(variant, result.msg))

\* Ok(TM::V(raw.into())), reached only when into() returned
OkInto(converted, variant) ==
    IF IsPanic(converted) THEN Panic ELSE Ok(TM(variant, converted))

TempestMsgTryFrom(msg) ==
    CASE msg.variant = "PrecipEvent" ->
             OkInto(PrecipEventFrom(msg.payload), "PrecipEvent")
      [] msg.variant = "StrikeEvent" ->
             OkInto(StrikeEventFrom(msg.payload), "StrikeEvent")
      [] msg.variant = "RapidWind" ->
             OkInto(RapidWindFrom(msg.payload), "RapidWind")
      [] msg.variant = "Observation" ->
             MapErrMap(ObservationTryFrom(msg.payload), "Observation")
      [] msg.variant = "HubStatus" ->
             MapErrMap(HubStatusTryFrom(msg.payload), "HubStatus")
      [] msg.variant = "DeviceStatus" ->
             OkInto(DeviceStatusFrom(msg.payload), "DeviceStatus")

(***************************************************************************)
(* decoder.rs: new.  reader.filter_map(closure): the closure turns a raw   *)
(* message into Some(decoded) or, after logging the raw message and the    *)
(* error, into None; filter_map yields the Some items, goes on to the next *)
(* upstream item after a None, and ends when the upstream ends.            *)
(***************************************************************************)
\* |raw| raw.try_into().map_err(|(raw, e)| { warn!(..) }).ok()
\* (when try_into panics the closure does not return: Panic)
DecoderClosure(r) ==
    LET t == TempestMsgTryFrom(r)
    IN  IF IsPanic(t) THEN Panic
        ELSE IF IsOk(t) THEN Some(t.msg) ELSE None

\* a combinator that stops at the first None of the closure (map_while)
MapWhileEndsAfter(out) == ~IsSome(out)

\* does filter_map end the stream after the closure returned `out` ?
FilterMapEndsAfter(out) == FALSE

(***************************************************************************)
(* Inputs.                                                                 *)
(***************************************************************************)
SerialNumber == <<"S", "T">>
HubSn        == <<"H", "B">>

\* the value slot i of an observation holds when present (odd: a fraction)
SlotVal(i) == 20 * i + 11
\* the values of slot 13 (precipitation type): -0.5, 0, 1, 2, 3, 3.5, 4, 9
PrecipCodes == {-10, 0, 20, 40, 60, 70, 80, 180}

RawObservationOf(present, code) ==
    [serial_number |-> SerialNumber, hub_sn |-> HubSn, firmware_revision |-> 1,
     obs |-> [i \in 0..17 |->
                 IF i \notin present THEN None
                 ELSE IF i = 13 THEN Some(code) ELSE Some(SlotVal(i))]]

\* the subsets of S with at most n elements
RECURSIVE SubsetsUpTo(_, _)
SubsetsUpTo(S, n) ==
    IF n = 0 THEN {{}}
    ELSE LET P == SubsetsUpTo(S, n - 1)
         IN  P \cup {b \cup {k} : b \in P, k \in S}

\* observations with at most MaxAbsent slots absent, or at most MaxAbsent present
SlotSets ==
    LET few == SubsetsUpTo(0..17, MaxAbsent)
    IN  few \cup {(0..17) \ a : a \in few}
\* r with 1e300 in those of its present slots that are in huge
WithHuge(r, huge) ==
    [r EXCEPT !.obs = [i \in 0..17 |->
                          IF i \in huge /\ IsSome(r.obs[i])
                          THEN Some(F64.HUGE) ELSE r.obs[i]]]
\* observations with 1e300 in some of the slots that are cast to i64 and
\* handed to chrono (0: timestamp, 5: wind interval, 17: report interval)
HugeObservations ==
    {WithHuge(RawObservationOf((0..17) \ a, c), h) :
        a \in SUBSET {0, 4, 16, 17}, c \in {20, 180},
        h \in (SUBSET {0, 5, 17}) \ {{}}}
RawObservations ==
    {RawObservationOf(p, c) : p \in SlotSets, c \in PrecipCodes}
        \cup HugeObservations

\* the i64 a device puts in a timestamp or uptime field
TimeFields == {100, 200, I64.FAR, I64.MAX, I64.MIN}
RawPrecipEvents ==
    {[serial_number |-> SerialNumber, hub_sn |-> HubSn, evt |-> <<t>>] :
        t \in TimeFields}
RawStrikeEvents ==
    {[serial_number |-> SerialNumber, hub_sn |-> HubSn, evt |-> <<t, d, 9>>] :
        t \in TimeFields, d \in {5, 6}}
RawRapidWinds ==
    {[serial_number |-> SerialNumber, hub_sn |-> HubSn, ob |-> <<t, sp, 180>>] :
        t \in TimeFields, sp \in {0, 7}}

\* u32 fields with at most MaxBitsSet one-bits, and their complements
SensorFields ==
    LET sparse == SubsetsUpTo(0..31, MaxBitsSet)
    IN  sparse \cup {(0..31) \ b : b \in sparse}

RawDeviceStatusOf(f, d, ts, up) ==
    [serial_number |-> SerialNumber, hub_sn |-> HubSn, timestamp |-> ts,
     uptime |-> up, voltage |-> 5, firmware_revision |-> 1, rssi |-> -120,
     hub_rssi |-> -130, sensor_status |-> f, debug |-> d]
RawDeviceStatuses ==
    {RawDeviceStatusOf(f, d, 100, 50) : f \in SensorFields, d \in {0, 1}}
        \cup {RawDeviceStatusOf({0, 15}, 1, ts, up) :
                  ts \in TimeFields, up \in {50, I64.FAR, I64.MAX}}

\* reset_flags strings: up to MaxTokens tokens joined by commas
XYZ == <<"X", "Y", "Z">>
Labels == {BOR, PIN, POR, SFT, WDG, WWD, LPW, HRDFLT}
Tokens == Labels \cup {<<>>, XYZ, <<"B", "O">>}
RECURSIVE JoinComma(_)
JoinComma(ts) ==
    IF Len(ts) = 1 THEN ts[1]
    ELSE ts[1] \o <<",">> \o JoinComma(Tail(ts))
FlagStrings ==
    {JoinComma(ts) : ts \in UNION {[1..n -> Tokens] : n \in 1..MaxTokens}}

RawHubStatusOf(flags, up, ts) ==
    [serial_number |-> HubSn, firmware_revision |-> <<"1", "7">>,
     uptime |-> up, rssi |-> -80, timestamp |-> ts, reset_flags |-> flags,
     seq |-> 1, radio_stats |-> <<1, 2, 3, 4, 5>>]
RawHubStatuses ==
    {RawHubStatusOf(f, up, ts) :
        f \in FlagStrings, up \in {50, 60}, ts \in {100, 200}}
        \cup {RawHubStatusOf(f, up, ts) :
                  f \in {BOR, BOR \o <<",">> \o XYZ},
                  up \in {I64.FAR, I64.MAX, I64.MIN}, ts \in TimeFields}

RawMsgs ==
    {RM("PrecipEvent", r)  : r \in RawPrecipEvents}  \cup
    {RM("StrikeEvent", r)  : r \in RawStrikeEvents}  \cup
    {RM("RapidWind", r)    : r \in RawRapidWinds}    \cup
    {RM("Observation", r)  : r \in RawObservations}  \cup
    {RM("DeviceStatus", r) : r \in RawDeviceStatuses} \cup
    {RM("HubStatus", r)    : r \in RawHubStatuses}

\* the raw messages the upstream stream of the pipeline draws from: in main
\* the stream is that of reader::new, whose observations have all 18 slots
StreamMsgs ==
    {RM("PrecipEvent", [serial_number |-> SerialNumber, hub_sn |-> HubSn,
                        evt |-> <<100>>]),
     RM("PrecipEvent", [serial_number |-> SerialNumber, hub_sn |-> HubSn,
                        evt |-> <<I64.FAR>>]),
     RM("RapidWind", [serial_number |-> SerialNumber, hub_sn |-> HubSn,
                      ob |-> <<100, 7, 180>>]),
     RM("StrikeEvent", [serial_number |-> SerialNumber, hub_sn |-> HubSn,
                        evt |-> <<100, 5, 9>>]),
     RM("DeviceStatus", [serial_number |-> SerialNumber, hub_sn |-> HubSn,
                         timestamp |-> 100, uptime |-> 50, voltage |-> 5,
                         firmware_revision |-> 1, rssi |-> -120,
                         hub_rssi |-> -130, sensor_status |-> {0, 15},
                         debug |-> 1]),
     RM("HubStatus", RawHubStatusOf(BOR \o <<",">> \o PIN, 50, 100)),
     RM("HubStatus", RawHubStatusOf(BOR \o <<",">> \o XYZ, 50, 100)),
     RM("Observation", RawObservationOf(0..17, 20)),
     RM("Observation", RawObservationOf(0..17, 180)),
     RM("Observation", RawObservationOf(0..17, 0))}

(***************************************************************************)
(* SpecDecode: TempestMsg::try_from applied to one raw message.            *)
(***************************************************************************)
InitDecode ==
    /\ raw \in RawMsgs
    /\ res = NotRun
    /\ rawIn = <<>> /\ decOut = <<>> /\ dropLog = <<>>
    /\ rawEnded = FALSE /\ decEnded = FALSE
    /\ ClockUnused /\ PerishableUnused /\ DeriveUnused /\ ExporterUnused
    /\ PumpUnused /\ MainUnused /\ PublisherUnused

Decode ==
    /\ res = NotRun
    /\ res' = TempestMsgTryFrom(raw)
    /\ UNCHANGED <<raw, rawIn, decOut, dropLog, rawEnded, decEnded>>
    /\ UNCHANGED notDecVars

NextDecode == Decode
SpecDecode == InitDecode /\ [][NextDecode]_vars

(***************************************************************************)
(* Spec: the decoded stream of decoder::new, polled by its consumer.       *)
(***************************************************************************)
Init ==
    /\ raw = None
    /\ res = NotRun
    /\ rawIn = <<>> /\ decOut = <<>> /\ dropLog = <<>>
    /\ rawEnded = FALSE /\ decEnded = FALSE
    /\ ClockUnused /\ PerishableUnused /\ DeriveUnused /\ ExporterUnused
    /\ PumpUnused /\ MainUnused /\ PublisherUnused

\* a poll in which the upstream yields Some(r); filter_map is not fused, so
\* the poll may follow one that returned None
\* (a poll in which the closure panics does not return, and the stream is
\* not polled again)
PollItem(r) ==
    /\ ~IsPanic(res)
    /\ Len(rawIn) < MaxStream
    /\ LET t   == TempestMsgTryFrom(r)
           out == DecoderClosure(r)
       IN  /\ raw' = r
           /\ res' = t
           /\ rawIn' = Append(rawIn, r)
           /\ IF IsPanic(t)
              THEN UNCHANGED <<decOut, dropLog, decEnded>>
              ELSE /\ decOut' = IF IsSome(out) THEN Append(decOut, Unwrap(out))
                                ELSE decOut
                   /\ dropLog' = IF IsErr(t) THEN Append(dropLog, t.raw)
                                 ELSE dropLog
                   /\ decEnded' = (decEnded \/ FilterMapEndsAfter(out))
    /\ UNCHANGED rawEnded
    /\ UNCHANGED notDecVars

\* a poll in which the upstream yields None: filter_map returns None
PollEnd ==
    /\ ~IsPanic(res)
    /\ rawEnded' = TRUE
    /\ decEnded' = TRUE
    /\ UNCHANGED <<raw, res, rawIn, decOut, dropLog>>
    /\ UNCHANGED notDecVars

Next ==
    \/ \E r \in StreamMsgs : PollItem(r)
    \/ PollEnd

Spec == Init /\ [][Next]_vars

(***************************************************************************)
(* Properties of the decoded stream (Spec).                                *)
(***************************************************************************)
\* the decoded forms of the inputs whose decode succeeds, in input order
RECURSIVE DecodedOf(_)
DecodedOf(ins) ==
    IF ins = <<>> THEN <<>>
    ELSE LET t == TempestMsgTryFrom(Head(ins))
         IN  (IF IsOk(t) THEN <<t.msg>> ELSE <<>>) \o DecodedOf(Tail(ins))

\* the inputs whose decode fails, in input order
RECURSIVE FailedOf(_)
FailedOf(ins) ==
    IF ins = <<>> THEN <<>>
    ELSE LET t == TempestMsgTryFrom(Head(ins))
         IN  (IF IsErr(t) THEN <<Head(ins)>> ELSE <<>>) \o FailedOf(Tail(ins))

\* C1: the decoded stream has yielded exactly the decoded forms of the
\* upstream items whose decode succeeds, in input order, one output per such
\* item; a failing item yields nothing (it is only logged) and leaves the
\* decoding of the later items as it would be without it.
C1_StreamYieldsDecodedInOrder ==
    /\ decOut = DecodedOf(rawIn)
    /\ Len(decOut) + Len(dropLog) = Len(rawIn)
    /\ dropLog = FailedOf(rawIn)

\* C2: the decoded stream ends only once the upstream has ended, whatever
\* number of decode failures came before, and when the upstream has ended
\* the decoded stream has ended too.
C2_EndsExactlyWithUpstream ==
    /\ decEnded => rawEnded
    /\ rawEnded => decEnded

\* the stream went through MaxStream consecutive failures and ended only
\* with the upstream
C2_Witness ==
    /\ Len(dropLog) = MaxStream
    /\ decOut = <<>>
    /\ decEnded /\ rawEnded

(***************************************************************************)
(* Properties of TempestMsg::try_from (SpecDecode).                        *)
(***************************************************************************)
Decoded == res # NotRun
IsObs == raw.variant = "Observation"
IsHub == raw.variant = "HubStatus"
IsDev == raw.variant = "DeviceStatus"
slots == raw.payload.obs           \* raw.obs[0] of the input observation
Present(S) == \A i \in S : IsSome(slots[i])
\* the precipitation code of the input: slot 13 as an integer
PrecipCode == AsI64(Unwrap(slots[13]))

DecodeErrors ==
    {"Missing observation timestamp", "Unrecognized precip type",
     "Missing battery voltage", "Missing report interval",
     "Unrecognized reset flag label"}

\* C3: whenever try_from fails, the raw message in the error is of the
\* variant of the input and equal to it in every field.
C3_ErrReturnsInputUnchanged ==
    IsErr(res) =>
        /\ res.err \in DecodeErrors
        /\ res.raw.variant = raw.variant
        /\ DOMAIN res.raw.payload = DOMAIN raw.payload
        /\ \A f \in DOMAIN raw.payload : res.raw.payload[f] = raw.payload[f]

\* an observation with precipitation code 9 failed and came back whole
C3_Witness ==
    /\ IsObs /\ IsErr(res)
    /\ res.err = "Unrecognized precip type"
    /\ Present(0..17) /\ Unwrap(slots[13]) = 180
    /\ res.raw = raw

\* C4: decoding an observation fails whenever slot 0, 16 or 17 is absent,
\* whatever the other slots hold; a produced Observation has its timestamp,
\* battery volts and report interval from slots 0, 16 and 17.
C4_RequiredSlots ==
    (Decoded /\ IsObs) =>
        /\ ~Present({0, 16, 17}) => IsErr(res)
        /\ IsOk(res) =>
              /\ Present({0, 16, 17})
              /\ res.msg.payload.timestamp = AsI64(Unwrap(slots[0]))
              /\ res.msg.payload.battery_volts = Unwrap(slots[16])
              /\ res.msg.payload.report_interval = 60 * AsI64(Unwrap(slots[17]))

\* C5 as stated: a precipitation code outside {0,1,2,3} fails the decode
\* whatever the other slots hold, also when slot 12 is absent.
C5_Original ==
    (Decoded /\ IsObs /\ IsSome(slots[13]) /\ PrecipCode \notin 0..3) => IsErr(res)

\* the input's slot 0 is present and its cast to i64 is no timestamp
\* chrono takes; its slot i is present and its cast is no Duration it takes
TimestampOutOfRange ==
    IsSome(slots[0]) /\ ~InTimestampRange(AsI64(Unwrap(slots[0])))
SlotOutOfRange(i) ==
    IsSome(slots[i]) /\ ~InDurationRange(AsI64(Unwrap(slots[i])))
\* the conversion of the input panics before it looks at the precipitation
\* code: in from_timestamp on slot 0, or in Duration::seconds on slot 5
\* when slots 1 to 5 are all present
PanicsBeforePrecip ==
    \/ TimestampOutOfRange
    \/ IsSome(slots[0]) /\ Present(1..5) /\ SlotOutOfRange(5)

\* C5 amended: with slots 12 and 13 both present, a precipitation code (slot
\* 13 cast to an integer) outside {0,1,2,3} fails the decode whatever the
\* other slots hold, except that the conversion panics, returning nothing,
\* when slot 0 or (with slots 1 to 5 all present) slot 5 is out of chrono's
\* range; with slot 12 absent the code is not examined: the decode then
\* fails only on a missing slot 0, 16 or 17 and otherwise succeeds with
\* precip absent, again unless slot 0, 5 or 17 makes it panic; codes
\* 0,1,2,3 give None, Rain, Hail, RainHail.
C5_PrecipCode ==
    (Decoded /\ IsObs /\ IsSome(slots[13])) =>
        /\ (IsSome(slots[12]) /\ PrecipCode \notin 0..3) =>
              IF PanicsBeforePrecip THEN IsPanic(res) ELSE IsErr(res)
        /\ (~IsSome(slots[12]) /\ Present({0, 16, 17})) =>
              IF PanicsBeforePrecip \/ SlotOutOfRange(17)
              THEN IsPanic(res)
              ELSE IsOk(res) /\ res.msg.payload.precip = None
        /\ (IsOk(res) /\ IsSome(slots[12])) =>
              /\ IsSome(res.msg.payload.precip)
              /\ Unwrap(res.msg.payload.precip).kind =
                    (CASE PrecipCode = 0 -> "None"
                       [] PrecipCode = 1 -> "Rain"
                       [] PrecipCode = 2 -> "Hail"
                       [] PrecipCode = 3 -> "RainHail")

\* code 4 next to a rain quantity failed the decode although the three
\* required slots are there
C5_Witness ==
    /\ IsObs /\ IsErr(res)
    /\ Present({0, 12, 13, 16, 17})
    /\ PrecipCode = 4

\* C6: in a decoded Observation each optional group is present iff all its
\* slots are, and a present group carries the values of its slots.
C6_GroupsAllOrNothing ==
    (IsObs /\ IsOk(res)) =>
        LET o == res.msg.payload
        IN  /\ IsSome(o.wind) <=> Present(1..5)
            /\ IsSome(o.solar) <=> Present(9..11)
            /\ IsSome(o.precip) <=> Present(12..13)
            /\ IsSome(o.lightning) <=> Present(14..15)
            /\ IsSome(o.wind) =>
                  LET w == Unwrap(o.wind)
                  IN  /\ w.lull.speed_magnitude = Unwrap(slots[1])
                      /\ w.avg.speed_magnitude = Unwrap(slots[2])
                      /\ w.gust.speed_magnitude = Unwrap(slots[3])
                      /\ \A g \in {w.lull, w.avg, w.gust} :
                             g.source_direction = Unwrap(slots[4])
                      /\ w.interval = AsI64(Unwrap(slots[5]))
            /\ IsSome(o.solar) =>
                  /\ Unwrap(o.solar).illuminance = Unwrap(slots[9])
                  /\ Unwrap(o.solar).ultraviolet_index = Unwrap(slots[10])
                  /\ Unwrap(o.solar).irradiance = Unwrap(slots[11])
            /\ IsSome(o.precip) =>
                  /\ Unwrap(o.precip).quantity_last_minute = Unwrap(slots[12])
                  /\ Unwrap(o.precip).kind \in {"None", "Rain", "Hail", "RainHail"}
            /\ IsSome(o.lightning) =>
                  /\ Unwrap(o.lightning).average_distance = Unwrap(slots[14])
                  /\ Unwrap(o.lightning).count = AsI64(Unwrap(slots[15]))

\* every wind slot but the interval is there: the wind group is absent as a
\* whole, next to a complete solar group
C6_Witness ==
    /\ IsObs /\ IsOk(res)
    /\ Present(1..4) /\ ~IsSome(slots[5])
    /\ res.msg.payload.wind = None
    /\ IsSome(res.msg.payload.solar)

\* C7: missing optional data never fails a decode: the four plain variants
\* always decode, and an observation with slots 0, 16, 17 present and a
\* precipitation code absent or in {0,1,2,3} decodes for every set of absent
\* slots among 1..15, copying slots 6, 7 and 8 each on its own.
C7_OptionalNeverFails ==
    Decoded =>
        /\ raw.variant \in {"PrecipEvent", "StrikeEvent", "RapidWind", "DeviceStatus"}
              => IsOk(res) /\ res.msg.variant = raw.variant
        /\ (IsObs /\ Present({0, 16, 17})
                  /\ (IsSome(slots[13]) => PrecipCode \in 0..3)) =>
              /\ IsOk(res)
              /\ res.msg.variant = "Observation"
              /\ res.msg.payload.station_pressure = slots[6]
              /\ res.msg.payload.air_temperature = slots[7]
              /\ res.msg.payload.relative_humidity = slots[8]

\* the comma-separated tokens of a string: its maximal comma-free pieces
\* (the piece from a to b is empty when a = b + 1)
CommaTokens(s) ==
    {SubSeq(s, a, b) : <<a, b>> \in
        {ab \in (1..(Len(s) + 1)) \X (0..Len(s)) :
            /\ ab[1] <= ab[2] + 1
            /\ (ab[1] = 1 \/ s[ab[1] - 1] = ",")
            /\ (ab[2] = Len(s) \/ s[ab[2] + 1] = ",")
            /\ \A i \in ab[1]..ab[2] : s[i] # ","}}

flagsIn == raw.payload.reset_flags   \* the reset_flags string of the input

RECURSIVE Reverse(_)
Reverse(q) == IF q = <<>> THEN <<>> ELSE Append(Reverse(Tail(q)), Head(q))

\* C8: decoding a raw HubStatus fails iff ResetFlags::from_str fails on its
\* reset_flags, which is exactly when some comma-separated token is not one
\* of the eight labels; one unknown token fails the whole message.
C8_HubFailsIffUnknownToken ==
    (Decoded /\ IsHub) =>
        /\ IsErr(res) <=> IsErr(ResetFlagsFromStr(flagsIn))
        /\ IsErr(res) <=> (\E t \in CommaTokens(flagsIn) : t \notin Labels)
        /\ IsErr(res) => res.err = "Unrecognized reset flag label"
        /\ IsOk(res) => res.msg.variant = "HubStatus"

\* "BOR,XYZ" failed the decode
C8_Witness ==
    /\ IsHub /\ IsErr(res)
    /\ flagsIn = <<"B", "O", "R", ",", "X", "Y", "Z">>

\* C9: when from_str succeeds each flag is true iff its label is among the
\* tokens; the flags depend only on the set of tokens, so the tokens in
\* reverse order, or with the first token repeated, give the same flags.
C9_FlagsAreTokenSet ==
    (IsHub /\ IsOk(res)) =>
        LET f  == res.msg.payload.reset_flags
            ts == CommaTokens(flagsIn)
            q  == SplitComma(flagsIn)
        IN  /\ f.brownout        <=> BOR \in ts
            /\ f.pin             <=> PIN \in ts
            /\ f.power_on        <=> POR \in ts
            /\ f.software        <=> SFT \in ts
            /\ f.watchdog        <=> WDG \in ts
            /\ f.window_watchdog <=> WWD \in ts
            /\ f.low_power       <=> LPW \in ts
            /\ f.hard_fault      <=> HRDFLT \in ts
            /\ ResetFlagsFromStr(JoinComma(Reverse(q))) = Ok(f)
            /\ ResetFlagsFromStr(JoinComma(<<q[1]>> \o q)) = Ok(f)

\* "BOR,PIN" gave brownout and pin and nothing else
C9_Witness ==
    /\ IsHub /\ IsOk(res)
    /\ flagsIn = <<"B", "O", "R", ",", "P", "I", "N">>
    /\ res.msg.payload.reset_flags =
          [ResetFlagsDefault EXCEPT !.brownout = TRUE, !.pin = TRUE]

fieldIn == raw.payload.sensor_status   \* the sensor_status field of the input

\* the bit of each flag, as the claim lists them
FlagBit ==
    [lightning_failure |-> 0, lightning_noise |-> 1, lightning_disturber |-> 2,
     pressure_failed |-> 3, temperature_failed |-> 4, humidity_failed |-> 5,
     wind_failed |-> 6, precip_failed |-> 7, irradiance_failed |-> 8,
     power_booster_depleted |-> 15, power_booster_shore_power |-> 16]

FlipBit(field, k) == IF k \in field THEN field \ {k} ELSE field \cup {k}

\* C10: SensorStatus::from is total, each of the eleven flags is true iff
\* its own bit is set, flipping one of bits 9-14 or 17-31 changes no flag
\* and flipping a mask bit changes exactly the flag of that bit.
C10_SensorStatusBits ==
    (Decoded /\ IsDev) =>
        /\ IsOk(res) => res.msg.payload.sensor_status = SensorStatusFrom(fieldIn)
        /\ LET st == SensorStatusFrom(fieldIn)
           IN  /\ DOMAIN st = DOMAIN FlagBit
               /\ \A f \in DOMAIN FlagBit : st[f] <=> FlagBit[f] \in fieldIn
               /\ \A k \in 0..31 :
                     LET st2 == SensorStatusFrom(FlipBit(fieldIn, k))
                     IN  {f \in DOMAIN FlagBit : st2[f] # st[f]} =
                         {f \in DOMAIN FlagBit : FlagBit[f] = k}

\* a field with bit 16 and the undefined bit 31 set gave shore power alone
C10_Witness ==
    /\ IsDev /\ IsOk(res)
    /\ fieldIn = {16, 31}
    /\ res.msg.payload.sensor_status.power_booster_shore_power
    /\ \A f \in DOMAIN FlagBit \ {"power_booster_shore_power"} :
           ~res.msg.payload.sensor_status[f]

(***************************************************************************)
(* Perishable<T> (src/src/perishable.rs): a value with an expiry instant   *)
(* kept in an AtomicCell<Instant>.  Instants and Durations are whole       *)
(* seconds.                                                                *)
(***************************************************************************)
INSTANT_WIND_VALID == 15
OBS_VALID == 3 * 60

\* how far one advance of the clock moves it
ClockSteps == {1, INSTANT_WIND_VALID, OBS_VALID}

Tick(dt) ==
    /\ ticks < MaxTicks
    /\ now' = now + dt
    /\ ticks' = ticks + 1

\* Perishable::new: the expiry the new cell holds
PerishableNewExpiry(nowv) == nowv

FreshenExpiryKeepsLater(old, nowv, valid_duration) ==
    IF old > nowv + valid_duration THEN old ELSE nowv + valid_duration
\* freshen: the expiry stored over the previous one
FreshenExpiry(old, nowv, valid_duration) == nowv + valid_duration

\* AtomicCell::store: the contents the cell goes through during one store
AtomicStore(old, new) == <<new>>

\* AtomicCell::load: whether a load made while the writer is at writerPc can
\* have to wait.  An Instant is wider than the widest atomic integer that
\* AtomicCell uses, so the cell is not lock-free: store holds a sequence lock
\* while it writes, and a load that finds the lock held waits until the
\* store has released it.
LoadWaits(writerPc) == writerPc = "store"

\* a fresh() that does not look at the expiry
FreshIgnoresExpiry(expiry, nowv, t) == Some(t)
\* fresh(): Some(&self.0) or None
Fresh(expiry, nowv, t) == IF expiry >= nowv THEN Some(t) ELSE None

\* what the scrape does with a gauge of a fresh cell: it takes its sample
Sample(gauge) == gauge

\* Perishable::map(f) == self.fresh().map(f), with the scrape's f
PerishableMap(expiry, nowv, t) ==
    IF IsSome(Fresh(expiry, nowv, t))
    THEN Some(Sample(Unwrap(Fresh(expiry, nowv, t)))) ELSE None

\* the gauge of a new cell, and the gauge after the writer set it for the
\* k-th message, handled at instant `at` with validity window d
GaugeNew == [v |-> 0, src |-> None]
GaugeSet(k, at, d) == [v |-> k, src |-> Some([at |-> at, d |-> d])]

\* the gauges a cell wraps: the one of a Perishable<Gauge>, or the four of a
\* Perishable<WindMetrics> (1 speed_magnitude, 2 source_direction,
\* 3 component_velocity_north, 4 component_velocity_east)
CellKinds == {"Gauge", "WindMetrics"}
CellNew(kind) ==
    IF kind = "Gauge" THEN <<GaugeNew>>
    ELSE <<GaugeNew, GaugeNew, GaugeNew, GaugeNew>>

FreshenDurations == {INSTANT_WIND_VALID, OBS_VALID}

(***************************************************************************)
(* SpecPerishable: one cell, written by the ingest path (freshen, then the *)
(* gauges are set one after the other) and read by the scrape path (map,   *)
(* then one sample per gauge), step by step.                               *)
(***************************************************************************)
InitPerishable ==
    /\ raw = None /\ res = NotRun
    /\ rawIn = <<>> /\ decOut = <<>> /\ dropLog = <<>>
    /\ rawEnded = FALSE /\ decEnded = FALSE
    /\ DeriveUnused /\ ExporterUnused /\ PumpUnused
    /\ MainUnused /\ PublisherUnused
    /\ now = 0 /\ ticks = 0
    /\ pExpiry = PerishableNewExpiry(now)
    /\ \E kind \in CellKinds : pValue = CellNew(kind)
    /\ pStored = {PerishableNewExpiry(now)}
    /\ pLast = None
    /\ wPc = "idle" /\ wAt = 0 /\ wDur = 0 /\ wPending = <<>> /\ wMsgs = 0
    /\ rPc = "idle" /\ rExp = 0 /\ rNow = 0 /\ rFresh = FALSE /\ rOut = None
    /\ rLast = None /\ rGap = FALSE

PTick(dt) ==
    /\ Tick(dt)
    /\ UNCHANGED <<notPerVars, perVars>>

\* freshen is entered: Instant::now() + valid_duration is evaluated and
\* self.1.store(..) is entered
FreshenCall(d) ==
    /\ wPc = "idle"
    /\ wMsgs < MaxFreshens
    /\ wAt' = now
    /\ wDur' = d
    /\ wPending' = AtomicStore(pExpiry, FreshenExpiry(pExpiry, now, d))
    /\ pStored' = pStored \cup {FreshenExpiry(pExpiry, now, d)}
    /\ wMsgs' = wMsgs + 1
    /\ wPc' = "store"
    /\ UNCHANGED <<notPerVars, clockVars, pExpiry, pValue, pLast,
                   rPc, rExp, rNow, rFresh, rOut, rLast, rGap>>

\* self.1.store(..); freshen returns &self.0 when the store is complete
FreshenStore ==
    /\ wPc = "store"
    /\ pExpiry' = Head(wPending)
    /\ wPending' = Tail(wPending)
    /\ IF Tail(wPending) = <<>>
       THEN wPc' = "set" /\ pLast' = Some([k |-> wMsgs, at |-> wAt, d |-> wDur])
       ELSE wPc' = "store" /\ pLast' = pLast
    /\ UNCHANGED <<notPerVars, clockVars, pValue, pStored, wAt, wDur, wMsgs,
                   rPc, rExp, rNow, rFresh, rOut, rLast, rGap>>

\* the gauges the writer has set for the message it is handling
GaugesSet == {i \in DOMAIN pValue : pValue[i].v = wMsgs}

\* the caller of freshen sets the next gauge of the value it was handed:
\* Gauge::set for a gauge cell, one of the four sets of WindMetrics::export
GaugeSetStep ==
    /\ wPc = "set"
    /\ LET i == Cardinality(GaugesSet) + 1
       IN  /\ pValue' = [pValue EXCEPT ![i] = GaugeSet(wMsgs, wAt, wDur)]
           /\ wPc' = IF i = Len(pValue) THEN "idle" ELSE "set"
    /\ UNCHANGED <<notPerVars, clockVars, pExpiry, pStored, pLast, wAt, wDur,
                   wPending, wMsgs, rPc, rExp, rNow, rFresh, rOut, rLast, rGap>>

\* a scrape begins with what the previous one left dropped; fresh():
\* self.1.load() finds the cell's lock held by a store and waits for it
ReadWait ==
    /\ rPc \in {"idle", "done"}
    /\ LoadWaits(wPc)
    /\ rPc' = "wait"
    /\ rExp' = 0 /\ rLast' = None
    /\ rNow' = 0 /\ rFresh' = FALSE /\ rOut' = None /\ rGap' = FALSE
    /\ UNCHANGED <<notPerVars, clockVars, pExpiry, pValue, pStored, pLast,
                   wPc, wAt, wDur, wPending, wMsgs>>

\* fresh(): self.1.load() returns the content of the cell: at once where the
\* build's AtomicCell<Instant> is lock-free or no store is under way, after
\* its wait otherwise
ReadLoad ==
    /\ rPc \in {"idle", "done", "wait"}
    /\ rPc = "wait" => ~LoadWaits(wPc)
    /\ rExp' = pExpiry
    /\ rLast' = pLast
    /\ rNow' = 0 /\ rFresh' = FALSE /\ rOut' = None /\ rGap' = FALSE
    /\ rPc' = "now"
    /\ UNCHANGED <<notPerVars, clockVars, pExpiry, pValue, pStored, pLast,
                   wPc, wAt, wDur, wPending, wMsgs>>

\* fresh(): the comparison with Instant::now()
ReadNow ==
    /\ rPc = "now"
    /\ rNow' = now
    /\ rFresh' = IsSome(Fresh(rExp, now, "cell"))
    /\ rPc' = IF IsSome(Fresh(rExp, now, "cell")) THEN "value" ELSE "done"
    /\ UNCHANGED <<notPerVars, clockVars, pExpiry, pValue, pStored, pLast,
                   wPc, wAt, wDur, wPending, wMsgs, rExp, rOut, rLast, rGap>>

\* the gauges the scrape has sampled
Sampled == IF IsSome(rOut) THEN DOMAIN Unwrap(rOut) ELSE {}

\* map: f registers the gauges of the value fresh() returned, and gather
\* takes the sample of each, one gauge at a time in the order of the
\* registry's hash map
ReadValue(i) ==
    /\ rPc = "value"
    /\ i \in DOMAIN pValue \ Sampled
    /\ LET g == Unwrap(PerishableMap(rExp, rNow, pValue[i]))
       IN  rOut' = IF IsSome(rOut) THEN Some((i :> g) @@ Unwrap(rOut))
                   ELSE Some(i :> g)
    /\ rGap' = (rGap \/ wPc = "set")
    /\ rPc' = IF Sampled \cup {i} = DOMAIN pValue THEN "done" ELSE "value"
    /\ UNCHANGED <<notPerVars, clockVars, pExpiry, pValue, pStored, pLast,
                   wPc, wAt, wDur, wPending, wMsgs, rExp, rNow, rFresh, rLast>>

WriterNext ==
    \/ \E d \in FreshenDurations : FreshenCall(d)
    \/ FreshenStore
    \/ GaugeSetStep

ReaderNext ==
    \/ ReadWait
    \/ ReadLoad
    \/ ReadNow
    \/ \E i \in DOMAIN pValue : ReadValue(i)

NextPerishable ==
    \/ \E dt \in ClockSteps : PTick(dt)
    \/ WriterNext
    \/ ReaderNext

SpecPerishable == InitPerishable /\ [][NextPerishable]_vars

(***************************************************************************)
(* Properties of Perishable (SpecPerishable).                              *)
(***************************************************************************)
\* the reader's fresh() has returned
ReadReturned == rPc \in {"value", "done"}

\* C11: after Perishable::new and before any freshen, fresh() and map()
\* return absent at every instant, the instant of construction included.
C11_NewIsNeverFresh ==
    (wMsgs = 0 /\ ReadReturned) => (~rFresh /\ rOut = None)

\* C12: fresh() returns the value exactly while now < expiry (absent at
\* now = expiry and later), and map(f) returns f of the value exactly when
\* fresh() returns the value.
C12_FreshIffStrictlyBefore ==
    /\ ReadReturned => (rFresh <=> rNow < rExp)
    /\ rPc = "done" => (IsSome(rOut) <=> rFresh)
    /\ (rPc = "done" /\ rFresh) => Sampled = DOMAIN pValue

\* C13: a freshen(d) called at t stores t + d over whatever expiry was there
\* (a later one too) and leaves the wrapped value as it was; a read made
\* after it and before any later freshen returns the value at the instant of
\* the call and at every time before t + d, and absent at every time after.
C13_FreshenSetsExpiry ==
    /\ IsSome(pLast) => pExpiry = Unwrap(pLast).at + Unwrap(pLast).d
    /\ wPc = "store" => \A i \in DOMAIN pValue : pValue[i].v = wMsgs - 1
    /\ wPc = "set" =>
          \A i \in DOMAIN pValue :
              pValue[i].v = IF i <= Cardinality(GaugesSet) THEN wMsgs
                            ELSE wMsgs - 1
    /\ (ReadReturned /\ IsSome(rLast)) =>
          LET f == Unwrap(rLast)
          IN  /\ rNow = f.at => rFresh
              /\ rNow < f.at + f.d => rFresh
              /\ rNow > f.at + f.d => ~rFresh

\* a read after a freshen that replaced a later expiry finds the cell stale
C13_Witness ==
    /\ ReadReturned /\ IsSome(rLast) /\ rLast = pLast
    /\ rNow > Unwrap(rLast).at + Unwrap(rLast).d /\ ~rFresh
    /\ \E e \in pStored : e > pExpiry
    /\ wMsgs = 2 /\ wPc = "set"
    /\ Len(pValue) = 4 /\ \A i \in DOMAIN pValue : pValue[i].v = 1

\* C14: every expiry a read compares against is the initial expiry or the
\* expiry of one whole freshen call, and the reader's next step can always
\* be taken, whatever the writer is doing.
C14_LoadsWholeStoresAndNeverWaits ==
    /\ rPc \in {"now", "value", "done"} => rExp \in pStored
    /\ ENABLED ReaderNext

\* no read compares against a mix of two stores
LoadsWholeStores ==
    rPc \in {"now", "value", "done"} => rExp \in pStored

(***************************************************************************)
(* decoder.rs: the derived quantities of an Observation.  Their f64        *)
(* arithmetic is carried out on terms, each standing for one f64 value:    *)
(*   Num(n)      the f64 nearest to n twentieths (the fields of an         *)
(*               Observation and the literals of the source); Num(0) is a  *)
(*               zero of either sign;                                      *)
(*   NaN         the IEEE 754 not-a-number;                                *)
(*   Const(c)    the source constant c, finite and not zero, which is not  *)
(*               a whole number of twentieths;                             *)
(*   Opaque(..)  the value of an operation the model does not evaluate,    *)
(*               kept as the expression that produced it: it may be any    *)
(*               f64, a NaN, a zero or an infinity included.               *)
(* An operation is evaluated only where IEEE 754 fixes its result from     *)
(* what is known of the operands, whatever the rounding; otherwise the     *)
(* result is the Opaque term of the operation.                             *)
(***************************************************************************)
Num(n) == [k |-> "num", n |-> n]
NaN == [k |-> "nan"]
Const(c) == [k |-> "const", name |-> c]
Opaque(op, args) == [k |-> "op", op |-> op, args |-> args]
\* the term is known to be NaN, a zero, the number 1: FALSE on an Opaque
\* term, of which nothing is concluded
KnownNaN(x) == x.k = "nan"
KnownZero(x) == x.k = "num" /\ x.n = 0
KnownOne(x) == x.k = "num" /\ x.n = 20
\* the term is known not to be the number 1: a NaN, a number other than 1,
\* a constant; FALSE on an Opaque term, whose value may be 1
KnownNotOne(x) == x.k = "nan" \/ x.k = "const" \/ (x.k = "num" /\ x.n # 20)
\* a number of twentieths that is a whole number of quarters: an f64, and
\* so are the sums and differences of two of them
Dyadic(x) == x.k = "num" /\ x.n % 5 = 0
\* the term is known to be finite and not zero: a number other than 0, a
\* constant or its negation, the unevaluated sum or difference of two
\* numbers (distinct twentieths are distinct f64s)
FiniteNonZero(x) ==
    \/ x.k = "num" /\ x.n # 0
    \/ x.k = "const"
    \/ x.k = "op" /\ x.op = "neg" /\ x.args[1].k = "const"
    \/ /\ x.k = "op" /\ x.op \in {"+", "-"}
       /\ x.args[1].k = "num" /\ x.args[2].k = "num"
       /\ x.args[1].n # (IF x.op = "+" THEN -x.args[2].n ELSE x.args[2].n)

\* a + b: x + 0 is x, x + (-x) is 0, a sum of quarters is exact; any other
\* sum of two numbers is rounded and is not a number of twentieths
FAdd(a, b) ==
    IF KnownNaN(a) \/ KnownNaN(b) THEN NaN
    ELSE IF KnownZero(a) THEN b
    ELSE IF KnownZero(b) THEN a
    ELSE IF a.k = "num" /\ b.k = "num" /\ a.n = -b.n THEN Num(0)
    ELSE IF Dyadic(a) /\ Dyadic(b) THEN Num(a.n + b.n)
    ELSE Opaque("+", <<a, b>>)
FSub(a, b) ==
    IF KnownNaN(a) \/ KnownNaN(b) THEN NaN
    ELSE IF KnownZero(b) THEN a
    ELSE IF a.k \in {"num", "const"} /\ a = b THEN Num(0)
    ELSE IF Dyadic(a) /\ Dyadic(b) THEN Num(a.n - b.n)
    ELSE Opaque("-", <<a, b>>)
\* a * b: 1 * x is x; 0 * x is 0 for a finite x (NaN for an infinity)
FMul(a, b) ==
    IF KnownNaN(a) \/ KnownNaN(b) THEN NaN
    ELSE IF KnownOne(a) THEN b
    ELSE IF KnownOne(b) THEN a
    ELSE IF KnownZero(a) /\ (KnownZero(b) \/ FiniteNonZero(b)) THEN Num(0)
    ELSE IF KnownZero(b) /\ FiniteNonZero(a) THEN Num(0)
    ELSE Opaque("*", <<a, b>>)
\* a / b: x / 1 is x, 0 / 0 is NaN, 0 / x is 0 for a finite x other than 0
FDiv(a, b) ==
    IF KnownNaN(a) \/ KnownNaN(b) THEN NaN
    ELSE IF KnownOne(b) THEN a
    ELSE IF KnownZero(a) /\ KnownZero(b) THEN NaN
    ELSE IF KnownZero(a) /\ FiniteNonZero(b) THEN Num(0)
    ELSE Opaque("/", <<a, b>>)
FNeg(a) ==
    IF KnownNaN(a) THEN NaN
    ELSE IF a.k = "num" THEN Num(-a.n)
    ELSE Opaque("neg", <<a>>)
\* f64::powf: 1 to any power and any base to the power 0 are 1, also for a
\* NaN; otherwise a NaN operand gives NaN, so a NaN exponent gives NaN only
\* under a base known not to be 1
FPowf(a, y) ==
    IF KnownOne(a) \/ KnownZero(y) THEN Num(20)
    ELSE IF KnownNaN(y) /\ KnownNotOne(a) THEN NaN
    ELSE IF KnownNaN(a) /\ FiniteNonZero(y) THEN NaN
    ELSE Opaque("powf", <<a, y>>)
\* f64::exp, ln, sqrt, atan (and cos, sin, to_radians): NaN of a NaN, sqrt
\* and ln of a negative number are NaN, exp(0) = 1 and exp underflows to 0
\* below -746, ln(1) = sqrt(0) = atan(0) = 0, sqrt(1) = 1
ExpUnderflow == [below |-> -14920]
FFn(f, a) ==
    IF KnownNaN(a) THEN NaN
    ELSE IF f \in {"sqrt", "ln"} /\ a.k = "num" /\ a.n < 0 THEN NaN
    ELSE IF f = "exp" /\ KnownZero(a) THEN Num(20)
    ELSE IF f = "exp" /\ a.k = "num" /\ a.n < ExpUnderflow.below THEN Num(0)
    ELSE IF f \in {"sqrt", "atan"} /\ KnownZero(a) THEN Num(0)
    ELSE IF f = "ln" /\ KnownOne(a) THEN Num(0)
    ELSE IF f = "sqrt" /\ KnownOne(a) THEN Num(20)
    ELSE Opaque(f, <<a>>)

\* the constants of decoder.rs (LAMBDA, a reserved word here, is LAMBDA_LAPSE)
K ==
    [LAMBDA_LAPSE |-> Const("LAMBDA"),
     G_OVER_RD_LAMBDA |-> Const("G_OVER_RD_LAMBDA"),
     ZERO_C_KELVIN |-> Num(5463),
     ARDEN_BUCK_A |-> Const("ARDEN_BUCK_A"),
     ARDEN_BUCK_B |-> Const("ARDEN_BUCK_B"),
     ARDEN_BUCK_C |-> Const("ARDEN_BUCK_C"),
     ARDEN_BUCK_D |-> Num(4690),
     STULL_A |-> Const("STULL_A"),
     STULL_B |-> Const("STULL_B"),
     STULL_C |-> Const("STULL_C"),
     STULL_D |-> Const("STULL_D"),
     STULL_E |-> Const("STULL_E"),
     STULL_F |-> Const("STULL_F"),
     STEADMAN_CE |-> Const("STEADMAN_CE"),
     STEADMAN_CWS |-> Num(-14),
     STEADMAN_CQ |-> Num(14),
     STEADMAN_OWS |-> Num(200),
     STEADMAN_B |-> Num(-85)]

BarometricPressure(o, station_elevation) ==
    IF ~IsSome(o.air_temperature) THEN None
    ELSE LET t_kelvin == FAdd(Num(Unwrap(o.air_temperature)), K.ZERO_C_KELVIN)
             lh       == FMul(K.LAMBDA_LAPSE, Num(station_elevation))
             ratio    == FPowf(FAdd(Num(20), FDiv(lh, FSub(t_kelvin, lh))),
                               FNeg(K.G_OVER_RD_LAMBDA))
         IN  IF ~IsSome(o.station_pressure) THEN None
             ELSE Some(FMul(Num(Unwrap(o.station_pressure)), ratio))

VaporPressureSaturated(o) ==
    IF ~IsSome(o.air_temperature) THEN None
    ELSE LET t == Num(Unwrap(o.air_temperature))
         IN  Some(FMul(K.ARDEN_BUCK_A,
                       FFn("exp", FMul(FSub(K.ARDEN_BUCK_B, FDiv(t, K.ARDEN_BUCK_D)),
                                       FDiv(t, FAdd(K.ARDEN_BUCK_C, t))))))

\* an actual vapor pressure that takes a missing humidity for 100 %
VaporPressureActualDefaultsHumidity(o) ==
    IF ~IsSome(VaporPressureSaturated(o)) THEN None
    ELSE Some(FMul(Unwrap(VaporPressureSaturated(o)),
                   FDiv(IF IsSome(o.relative_humidity)
                        THEN Num(Unwrap(o.relative_humidity)) ELSE Num(2000),
                        Num(2000))))
VaporPressureActual(o) ==
    IF ~IsSome(VaporPressureSaturated(o)) THEN None
    ELSE IF ~IsSome(o.relative_humidity) THEN None
    ELSE Some(FMul(Unwrap(VaporPressureSaturated(o)),
                   FDiv(Num(Unwrap(o.relative_humidity)), Num(2000))))

DewPoint(o) ==
    IF ~IsSome(VaporPressureActual(o)) THEN None
    ELSE LET ln_pa_t_over_a ==
                 FFn("ln", FDiv(Unwrap(VaporPressureActual(o)), K.ARDEN_BUCK_A))
         IN  Some(FDiv(FMul(K.ARDEN_BUCK_C, ln_pa_t_over_a),
                       FSub(K.ARDEN_BUCK_B, ln_pa_t_over_a)))

WetBulbTemperature(o) ==
    IF ~IsSome(o.air_temperature) THEN None
    ELSE IF ~IsSome(o.relative_humidity) THEN None
    ELSE LET t  == Num(Unwrap(o.air_temperature))
             rh == Num(Unwrap(o.relative_humidity))
         IN  Some(FAdd(FAdd(FSub(FAdd(
                  FMul(t, FFn("atan", FMul(K.STULL_A, FFn("sqrt", FAdd(rh, K.STULL_B))))),
                  FFn("atan", FAdd(t, rh))),
                  FFn("atan", FAdd(rh, K.STULL_C))),
                  FMul(FMul(K.STULL_D, FPowf(rh, Num(30))),
                       FFn("atan", FMul(K.STULL_E, rh)))),
                  K.STULL_F))

ApparentTemperature(o) ==
    IF ~IsSome(o.air_temperature) THEN None
    ELSE IF ~IsSome(VaporPressureActual(o)) THEN None
    ELSE IF ~IsSome(o.wind) THEN None
    ELSE IF ~IsSome(o.solar) THEN None
    ELSE LET ta == Num(Unwrap(o.air_temperature))
             e  == Unwrap(VaporPressureActual(o))
             ws == Num(Unwrap(o.wind).avg.speed_magnitude)
             q  == Num(Unwrap(o.solar).irradiance)
         IN  Some(FAdd(FAdd(FAdd(FAdd(ta, FMul(K.STEADMAN_CE, e)),
                                 FMul(K.STEADMAN_CWS, ws)),
                            FDiv(FMul(K.STEADMAN_CQ, q), FAdd(ws, K.STEADMAN_OWS))),
                       K.STEADMAN_B))

(***************************************************************************)
(* SpecDerive: the six derived quantities of one decoded Observation.      *)
(***************************************************************************)
Inputs == {"wind", "station_pressure", "air_temperature",
           "relative_humidity", "solar"}
\* a slot whose absence makes the input absent
InputSlot(q) ==
    CASE q = "wind" -> 3
      [] q = "station_pressure" -> 6
      [] q = "air_temperature" -> 7
      [] q = "relative_humidity" -> 8
      [] q = "solar" -> 10
\* air temperatures: 7.55 degrees Celsius and -273.15 degrees Celsius
Temperatures == {SlotVal(7), -5463}
\* station elevations: sea level and 100 m
Elevations == {0, 2000}

RawObservationAt(absent, temp) ==
    LET r == RawObservationOf((0..17) \ {InputSlot(q) : q \in absent}, 20)
    IN  [r EXCEPT !.obs[7] = IF IsSome(@) THEN Some(temp) ELSE None]

DeriveRaws ==
    {RM("Observation", RawObservationAt(a, t)) :
        a \in SUBSET Inputs, t \in Temperatures}

InitDerive ==
    /\ raw \in DeriveRaws
    /\ res = TempestMsgTryFrom(raw)
    /\ rawIn = <<>> /\ decOut = <<>> /\ dropLog = <<>>
    /\ rawEnded = FALSE /\ decEnded = FALSE
    /\ ClockUnused /\ PerishableUnused /\ ExporterUnused /\ PumpUnused
    /\ MainUnused /\ PublisherUnused
    /\ dElev \in Elevations
    /\ dOut = None

Derive ==
    /\ dOut = None
    /\ LET o == res.msg.payload
       IN  dOut' = Some([barometric_pressure      |-> BarometricPressure(o, dElev),
                         vapor_pressure_saturated |-> VaporPressureSaturated(o),
                         vapor_pressure_actual    |-> VaporPressureActual(o),
                         dew_point                |-> DewPoint(o),
                         wet_bulb_temperature     |-> WetBulbTemperature(o),
                         apparent_temperature     |-> ApparentTemperature(o)])
    /\ UNCHANGED <<decVars, dElev, notDerVars>>

NextDerive == Derive
SpecDerive == InitDerive /\ [][NextDerive]_vars

(***************************************************************************)
(* Properties of the derived quantities (SpecDerive).                      *)
(***************************************************************************)
Derived == IsSome(dOut)
obsIn == res.msg.payload
Has(q) ==
    CASE q = "wind" -> \A i \in 1..5 : IsSome(raw.payload.obs[i])
      [] q = "solar" -> \A i \in 9..11 : IsSome(raw.payload.obs[i])
      [] OTHER -> IsSome(raw.payload.obs[InputSlot(q)])

\* C15: each derived quantity is present exactly when its inputs are:
\* barometric_pressure with station pressure and air temperature,
\* vapor_pressure_saturated with air temperature, vapor_pressure_actual,
\* dew_point and wet_bulb_temperature with air temperature and relative
\* humidity, apparent_temperature with air temperature, relative humidity,
\* the wind group and the solar group; the Observation is left as decoded.
C15_DerivedPresentIffInputs ==
    Derived =>
        LET d == Unwrap(dOut)
        IN  /\ IsSome(d.barometric_pressure) <=>
                   (Has("station_pressure") /\ Has("air_temperature"))
            /\ IsSome(d.vapor_pressure_saturated) <=> Has("air_temperature")
            /\ \A f \in {d.vapor_pressure_actual, d.dew_point,
                         d.wet_bulb_temperature} :
                   IsSome(f) <=> (Has("air_temperature") /\ Has("relative_humidity"))
            /\ IsSome(d.apparent_temperature) <=>
                   (Has("air_temperature") /\ Has("relative_humidity")
                    /\ Has("wind") /\ Has("solar"))
            /\ res = TempestMsgTryFrom(raw)

\* air temperature and wind without humidity: only the saturated vapor
\* pressure is derived
C15_Witness ==
    /\ Derived
    /\ Has("air_temperature") /\ Has("wind") /\ Has("solar")
    /\ ~Has("relative_humidity") /\ ~Has("station_pressure")
    /\ IsSome(Unwrap(dOut).vapor_pressure_saturated)
    /\ ~IsSome(Unwrap(dOut).dew_point)
    /\ ~IsSome(Unwrap(dOut).apparent_temperature)

\* C16: with station pressure and air temperature present,
\* barometric_pressure(0) is the station pressure exactly, whatever the air
\* temperature.
C16_SeaLevelPressureIsStationPressure ==
    (Derived /\ dElev = 0 /\ Has("station_pressure") /\ Has("air_temperature")) =>
        Unwrap(dOut).barometric_pressure = Some(Num(Unwrap(obsIn.station_pressure)))

(***************************************************************************)
(* exporter.rs: ExportedMetrics, the ExportTo impls, register_all.         *)
(***************************************************************************)
WindCells == {"observation_wind_lull", "observation_wind_avg",
              "observation_wind_gust"}
ObservationCells ==
    WindCells \cup
    {"observation_station_pressure", "observation_barometric_pressure",
     "observation_temperature", "observation_relative_humidity",
     "observation_dew_point", "observation_wet_bulb_temperature",
     "observation_apparent_temperature", "observation_illuminance",
     "observation_irradiance", "observation_uv_index"}
CellNames == {"instant_wind"} \cup ObservationCells

ReceivedTypes == {"precip_event", "strike_event", "instant_wind",
                  "observation", "device_status", "hub_status"}
\* the sensor conditions, in the order export_to sets their gauges
SensorConditions ==
    <<"lightning_failure", "lightning_noise", "lightning_disturber",
      "pressure_failed", "temperature_failed", "humidity_failed",
      "wind_failed", "precip_failed", "irradiance_failed",
      "power_booster_depleted", "power_booster_shore_power">>

\* Wind::component_velocity
ComponentVelocity(wind) ==
    LET rad == FFn("to_radians", Num(wind.source_direction))
    IN  <<FMul(Num(wind.speed_magnitude), FFn("cos", rad)),
          FMul(Num(wind.speed_magnitude), FFn("sin", rad))>>

\* the gauges of a WindMetrics, in the order export sets them
WindGauges == <<"speed_magnitude", "source_direction",
                "component_velocity_north", "component_velocity_east">>

\* WindMetrics::new: four gauges at 0
WindMetricsNew ==
    [speed_magnitude |-> Num(0), source_direction |-> Num(0),
     component_velocity_north |-> Num(0), component_velocity_east |-> Num(0)]
\* WindMetrics::export: the values it sets the four gauges to
WindMetricsExport(wind) ==
    [speed_magnitude |-> Num(wind.speed_magnitude),
     source_direction |-> Num(wind.source_direction),
     component_velocity_north |-> ComponentVelocity(wind)[1],
     component_velocity_east |-> ComponentVelocity(wind)[2]]

\* ExportedMetrics::new: every cell is Perishable::new of gauges at 0
CellsNew(nowv) ==
    [c \in CellNames |->
        [expiry   |-> PerishableNewExpiry(nowv),
         value    |-> IF c \in WindCells \cup {"instant_wind"}
                      THEN WindMetricsNew ELSE Num(0),
         freshens |-> 0]]
ReceivedNew == [t \in ReceivedTypes |-> 0]
PlainNew ==
    [observation_timestamp |-> 0, observation_rain |-> <<>>,
     station_battery_volts |-> Num(0), station_sensor_status |-> <<>>]

\* cell.freshen(d) followed by a set of the gauge(s): one update
Update(cell, d, v) == [cell |-> cell, d |-> d, v |-> v]
\* an update made whether or not the input is there
UpdateAlways(o, cell, d, v) == <<Update(cell, d, v)>>
\* an update made under Option::map or `if let Some`
UpdateIf(o, cell, d, v) == IF IsSome(o) THEN <<Update(cell, d, v)>> ELSE <<>>

\* ExportTo for decoder::RapidWind: the cells it freshens and sets
RapidWindUpdates(rw) ==
    <<Update("instant_wind", INSTANT_WIND_VALID, WindMetricsExport(rw.wind))>>

\* ExportTo for decoder::Observation: the cells it freshens and sets, in
\* the order of the code
ObservationUpdates(o, elevation) ==
    LET bp == BarometricPressure(o, elevation)
        dp == DewPoint(o)
        wb == WetBulbTemperature(o)
        at == ApparentTemperature(o)
        V(opt) == IF IsSome(opt) THEN Unwrap(opt) ELSE Num(0)
        N(opt) == IF IsSome(opt) THEN Num(Unwrap(opt)) ELSE Num(0)
    IN  (IF IsSome(o.wind)
         THEN <<Update("observation_wind_lull", OBS_VALID,
                       WindMetricsExport(Unwrap(o.wind).lull)),
                Update("observation_wind_avg", OBS_VALID,
                       WindMetricsExport(Unwrap(o.wind).avg)),
                Update("observation_wind_gust", OBS_VALID,
                       WindMetricsExport(Unwrap(o.wind).gust))>>
         ELSE <<>>)
        \o UpdateIf(o.station_pressure, "observation_station_pressure",
                    OBS_VALID, N(o.station_pressure))
        \o UpdateIf(bp, "observation_barometric_pressure", OBS_VALID, V(bp))
        \o UpdateIf(o.air_temperature, "observation_temperature", OBS_VALID,
                    N(o.air_temperature))
        \o UpdateIf(o.relative_humidity, "observation_relative_humidity",
                    OBS_VALID, N(o.relative_humidity))
        \o UpdateIf(dp, "observation_dew_point", OBS_VALID, V(dp))
        \o UpdateIf(wb, "observation_wet_bulb_temperature", OBS_VALID, V(wb))
        \o UpdateIf(at, "observation_apparent_temperature", OBS_VALID, V(at))
        \o (IF IsSome(o.solar)
            THEN <<Update("observation_illuminance", OBS_VALID,
                          Num(Unwrap(o.solar).illuminance)),
                   Update("observation_irradiance", OBS_VALID,
                          Num(Unwrap(o.solar).irradiance)),
                   Update("observation_uv_index", OBS_VALID,
                          Num(Unwrap(o.solar).ultraviolet_index))>>
            ELSE <<>>)

\* Exporter::handle_report: the export_to of the message's variant
ExportUpdates(msg, elevation) ==
    CASE msg.variant = "RapidWind" -> RapidWindUpdates(msg.payload)
      [] msg.variant = "Observation" ->
             ObservationUpdates(msg.payload, elevation)
      [] OTHER -> <<>>

\* the "type" label each export_to counts its message under
ReceivedType(msg) ==
    CASE msg.variant = "PrecipEvent" -> "precip_event"
      [] msg.variant = "StrikeEvent" -> "strike_event"
      [] msg.variant = "RapidWind" -> "instant_wind"
      [] msg.variant = "Observation" -> "observation"
      [] msg.variant = "DeviceStatus" -> "device_status"
      [] msg.variant = "HubStatus" -> "hub_status"

\* the steps of one update: freshen (the evaluation of Instant::now() +
\* valid_duration; the store of the expiry follows as a step of its own),
\* then WindMetrics::export's four sets or the one set of a gauge cell
UpdateSteps(u) ==
    <<[op |-> "freshen", cell |-> u.cell, d |-> u.d]>> \o
    (IF u.cell \in WindCells \cup {"instant_wind"}
     THEN [i \in 1..Len(WindGauges) |->
              [op |-> "set", cell |-> u.cell, gauge |-> WindGauges[i],
               v |-> u.v[WindGauges[i]]]]
     ELSE <<[op |-> "set", cell |-> u.cell, gauge |-> "gauge", v |-> u.v]>>)

RECURSIVE StepsOf(_)
StepsOf(ups) ==
    IF ups = <<>> THEN <<>> ELSE UpdateSteps(Head(ups)) \o StepsOf(Tail(ups))

\* export_to of each message variant: its steps, each one call on one
\* metric, in the order of the code
ExportSteps(msg, elevation) ==
    LET inc == [op |-> "inc", type |-> ReceivedType(msg)]
    IN  CASE msg.variant = "Observation" ->
                 LET o == msg.payload
                 IN  <<inc,
                       [op |-> "set_plain", name |-> "observation_timestamp",
                        v |-> o.timestamp]>>
                     \o StepsOf(ExportUpdates(msg, elevation))
                     \o (IF IsSome(o.precip)
                         THEN <<[op |-> "observe",
                                 v |-> Unwrap(o.precip).quantity_last_minute]>>
                         ELSE <<>>)
                     \o <<[op |-> "set_plain", name |-> "station_battery_volts",
                           v |-> Num(o.battery_volts)]>>
          [] msg.variant = "RapidWind" ->
                 <<inc>> \o StepsOf(ExportUpdates(msg, elevation))
          [] msg.variant = "DeviceStatus" ->
                 <<inc>> \o
                 [i \in 1..Len(SensorConditions) |->
                     [op |-> "set_status", condition |-> SensorConditions[i],
                      v |-> IF msg.payload.sensor_status[SensorConditions[i]]
                            THEN 1 ELSE 0]]
          [] OTHER -> <<inc>>

\* register_all: the perishable cells in the order it looks at them
RegisterOrder ==
    <<"instant_wind", "observation_wind_lull", "observation_wind_avg",
      "observation_wind_gust", "observation_station_pressure",
      "observation_barometric_pressure", "observation_temperature",
      "observation_relative_humidity", "observation_dew_point",
      "observation_wet_bulb_temperature", "observation_apparent_temperature",
      "observation_illuminance", "observation_irradiance",
      "observation_uv_index">>

\* a register_all that registers the metrics of every cell
RegistersStale(expiry, nowv) == TRUE
\* register_all: Perishable::map registers the metrics of a cell whose
\* loaded expiry is fresh at the Instant::now() read after the load
Registers(expiry, nowv) == IsSome(PerishableMap(expiry, nowv, "metrics"))

\* history: whether the message carries the input of the cell, that is the
\* field, group or derived quantity the cell is set from
CarriesInput(c, msg) ==
    CASE msg.variant = "RapidWind" -> c = "instant_wind"
      [] msg.variant = "Observation" ->
             LET o  == msg.payload
                 t  == IsSome(o.air_temperature)
                 rh == IsSome(o.relative_humidity)
             IN  CASE c \in WindCells -> IsSome(o.wind)
                   [] c = "observation_station_pressure" ->
                          IsSome(o.station_pressure)
                   [] c = "observation_barometric_pressure" ->
                          IsSome(o.station_pressure) /\ t
                   [] c = "observation_temperature" -> t
                   [] c = "observation_relative_humidity" -> rh
                   [] c \in {"observation_dew_point",
                             "observation_wet_bulb_temperature"} -> t /\ rh
                   [] c = "observation_apparent_temperature" ->
                          t /\ rh /\ IsSome(o.wind) /\ IsSome(o.solar)
                   [] c \in {"observation_illuminance",
                             "observation_irradiance",
                             "observation_uv_index"} -> IsSome(o.solar)
                   [] OTHER -> FALSE
      [] OTHER -> FALSE

(***************************************************************************)
(* Exporter::handle_report and Exporter::encode, one call on one metric    *)
(* per step.  handle_report runs on the task that reads the stream, encode *)
(* on the server task, and the two interleave step by step.                *)
(***************************************************************************)
\* what the step s of the k-th handle_report does, with the steps `rest` to
\* follow; a freshen reads the clock and leaves its store as the next step
ExporterDoes(s, rest, k) ==
    /\ xTodo' = IF s.op = "freshen"
                THEN <<[op |-> "store", cell |-> s.cell,
                        expiry |-> FreshenExpiry(xCells[s.cell].expiry, now,
                                                 s.d)]>>
                     \o rest
                ELSE rest
    /\ xCells' =
          CASE s.op = "store" ->
                   [xCells EXCEPT ![s.cell] =
                       [@ EXCEPT !.expiry = s.expiry, !.freshens = @ + 1]]
            [] s.op = "set" ->
                   [xCells EXCEPT ![s.cell].value =
                       IF s.gauge = "gauge" THEN s.v
                       ELSE [@ EXCEPT ![s.gauge] = s.v]]
            [] OTHER -> xCells
    /\ xReceived' = IF s.op = "inc"
                    THEN [xReceived EXCEPT ![s.type] = @ + 1] ELSE xReceived
    /\ xPlain' =
          CASE s.op = "set_plain" -> [xPlain EXCEPT ![s.name] = s.v]
            [] s.op = "observe" ->
                   [xPlain EXCEPT !.observation_rain = Append(@, s.v)]
            [] s.op = "set_status" ->
                   [xPlain EXCEPT !.station_sensor_status =
                       (s.condition :> s.v) @@ @]
            [] OTHER -> xPlain
    /\ xLastIn' = IF s.op = "freshen"
                  THEN [xLastIn EXCEPT ![s.cell] = Some([k |-> k, at |-> now])]
                  ELSE xLastIn

\* Exporter::new at the instant `now`, and no call under way
ExporterNew ==
    /\ xElev \in Elevations
    /\ xCells = CellsNew(now)
    /\ xReceived = ReceivedNew
    /\ xPlain = PlainNew
    /\ xReports = 0
    /\ xTodo = <<>>
    /\ xMsg = None
    /\ xLastIn = [c \in CellNames |-> None]
    /\ xScrape = None

\* Exporter::handle_report(&msg) is called: export_to is entered and counts
\* the message
ExporterHandles(msg) ==
    /\ xTodo = <<>>
    /\ xReports' = xReports + 1
    /\ xMsg' = Some(msg)
    /\ ExporterDoes(Head(ExportSteps(msg, xElev)),
                    Tail(ExportSteps(msg, xElev)), xReports + 1)
    /\ UNCHANGED <<xElev, xScrape>>

\* the next call export_to makes on a metric
ExporterStep ==
    /\ xTodo # <<>>
    /\ ExporterDoes(Head(xTodo), Tail(xTodo), xReports)
    /\ UNCHANGED <<xElev, xReports, xMsg, xScrape>>

\* register_all comes to the next cell; fresh(): self.1.load().  The first
\* load follows the entry to Exporter::encode.  A load that finds a store
\* of the cell under way is this step once that store is done (ReadWait).
EncodeLoad ==
    /\ LET todo == IF IsSome(xScrape) THEN Unwrap(xScrape).todo
                   ELSE RegisterOrder
           reg  == IF IsSome(xScrape) THEN Unwrap(xScrape).registered ELSE {}
       IN  /\ todo # <<>>
           /\ IsSome(xScrape) => ~IsSome(Unwrap(xScrape).exp)
           /\ xScrape' = Some([todo       |-> todo,
                               exp        |-> Some(xCells[Head(todo)].expiry),
                               registered |-> reg])
    /\ UNCHANGED <<notExpVars, clockVars, xElev, xCells, xReceived, xPlain,
                   xReports, xTodo, xMsg, xLastIn>>

\* fresh(): the comparison with Instant::now(); map registers the cell's
\* metrics when it is fresh
EncodeCheck ==
    /\ IsSome(xScrape) /\ IsSome(Unwrap(xScrape).exp)
    /\ LET sc == Unwrap(xScrape)
       IN  xScrape' = Some([todo       |-> Tail(sc.todo),
                            exp        |-> None,
                            registered |->
                                IF Registers(Unwrap(sc.exp), now)
                                THEN sc.registered \cup {Head(sc.todo)}
                                ELSE sc.registered])
    /\ UNCHANGED <<notExpVars, clockVars, xElev, xCells, xReceived, xPlain,
                   xReports, xTodo, xMsg, xLastIn>>

\* gather and the text encoding of what is registered; encode returns and
\* its registry is dropped
EncodeReturn ==
    /\ IsSome(xScrape) /\ Unwrap(xScrape).todo = <<>>
    /\ xScrape' = None
    /\ UNCHANGED <<notExpVars, clockVars, xElev, xCells, xReceived, xPlain,
                   xReports, xTodo, xMsg, xLastIn>>

(***************************************************************************)
(* SpecExport: the Exporter handles decoded messages (handle_report) and   *)
(* is scraped (encode) while the clock advances.                           *)
(***************************************************************************)
\* observations that carry the air temperature alone and the station
\* pressure alone
ExportObsRaws ==
    {RM("Observation", RawObservationAt(Inputs \ {q}, SlotVal(7))) :
        q \in {"air_temperature", "station_pressure"}}

\* the decoded messages the Exporter is handed: a RapidWind and these
ExportMsgs ==
    {TempestMsgTryFrom(r).msg :
        r \in {r \in StreamMsgs : r.variant = "RapidWind"} \cup ExportObsRaws}

InitExport ==
    /\ raw = None /\ res = NotRun
    /\ rawIn = <<>> /\ decOut = <<>> /\ dropLog = <<>>
    /\ rawEnded = FALSE /\ decEnded = FALSE
    /\ PerishableUnused /\ DeriveUnused /\ PumpUnused
    /\ MainUnused /\ PublisherUnused
    /\ now = 0 /\ ticks = 0
    /\ ExporterNew

\* how far one advance of the clock moves it while the Exporter is scraped:
\* past the validity window of instant wind, past both windows
ExportClockSteps == {INSTANT_WIND_VALID + 1, OBS_VALID + 1}

XTick(dt) ==
    /\ Tick(dt)
    /\ UNCHANGED <<notExpVars, expVars>>

HandleReport(msg) ==
    /\ xReports < MaxReports
    /\ ExporterHandles(msg)
    /\ UNCHANGED <<notExpVars, clockVars>>

ExportStep == ExporterStep /\ UNCHANGED <<notExpVars, clockVars>>

NextExport ==
    \/ \E dt \in ExportClockSteps : XTick(dt)
    \/ \E msg \in ExportMsgs : HandleReport(msg)
    \/ ExportStep
    \/ EncodeLoad
    \/ EncodeCheck
    \/ EncodeReturn

SpecExport == InitExport /\ [][NextExport]_vars

(***************************************************************************)
(* SpecHandle: the Exporter handles decoded messages of every variant,     *)
(* step by step, while the clock advances.                                 *)
(***************************************************************************)
\* observations with all five inputs, with one of them absent, with none
HandleObsRaws ==
    {RM("Observation", RawObservationAt(a, SlotVal(7))) :
        a \in {a \in SUBSET Inputs : Cardinality(a) \in {0, 1, 5}}}

\* the decoded messages the Exporter is handed
HandleMsgs ==
    {TempestMsgTryFrom(r).msg :
        r \in {r \in StreamMsgs \cup HandleObsRaws :
                  /\ IsOk(TempestMsgTryFrom(r))
                  /\ r.variant = "Observation" => r \in HandleObsRaws}}

HandleMsg(msg) ==
    /\ xReports < MaxHandled
    /\ ExporterHandles(msg)
    /\ UNCHANGED <<notExpVars, clockVars>>

NextHandle ==
    \/ \E dt \in ExportClockSteps : XTick(dt)
    \/ \E msg \in HandleMsgs : HandleMsg(msg)
    \/ ExportStep

SpecHandle == InitExport /\ [][NextHandle]_vars

(***************************************************************************)
(* Properties of the Exporter (SpecExport, SpecHandle).                    *)
(***************************************************************************)
\* the validity window the claims give for a cell, in seconds
Window(c) == IF c = "instant_wind" THEN 15 ELSE 180

\* this step is the scrape's comparison of the expiry it loaded from cell c
ScrapeChecks(c) ==
    /\ IsSome(xScrape) /\ IsSome(Unwrap(xScrape).exp)
    /\ Head(Unwrap(xScrape).todo) = c
    /\ IsSome(xScrape') /\ ~IsSome(Unwrap(xScrape').exp)

\* what the scrape has registered so far
Registered == IF IsSome(xScrape) THEN Unwrap(xScrape).registered ELSE {}

\* C17: a scrape registers the metrics of a cell only if the expiry it loaded
\* from the cell has not passed when it compares, and of no other cell in
\* that step; when it compares more than the cell's window (15 s for instant
\* wind, 180 s for an observation cell) after the last freshen call made on
\* the cell, it leaves the cell's metrics out.
C17_StaleCellsAreNotScraped ==
    [][\A c \in CellNames :
          ScrapeChecks(c) =>
              /\ Registered' \ Registered \subseteq {c}
              /\ c \in Registered' => now <= Unwrap(Unwrap(xScrape).exp)
              /\ (IsSome(xLastIn[c]) /\
                  now - Unwrap(xLastIn[c]).at > Window(c)) =>
                     c \notin Registered']_vars

\* a scrape that compared 16 s or more after the last RapidWind and less
\* than 180 s after an Observation with the air temperature were handled
\* has left instant wind out and registered the temperature
C17_Witness ==
    /\ IsSome(xScrape) /\ Unwrap(xScrape).todo = <<>>
    /\ xTodo = <<>>
    /\ IsSome(xLastIn["instant_wind"])
    /\ now - Unwrap(xLastIn["instant_wind"]).at > 15
    /\ "instant_wind" \notin Registered
    /\ IsSome(xLastIn["observation_temperature"])
    /\ now - Unwrap(xLastIn["observation_temperature"]).at < 180
    /\ "observation_temperature" \in Registered

\* C20: a step of handle_report changes a cell only if the message being
\* handled carries the cell's input (RapidWind: the instant-wind cell;
\* Observation: the observation cells whose field, group or derived quantity
\* is present, never the instant-wind cell; the other messages: none), and
\* when handle_report has returned, the cells it has freshened are exactly
\* those, each with the expiry its own freshen call computed: the
\* Instant::now() that call read plus the cell's window.
C20_OnlyCellsWithInputChange ==
    /\ [](xReports > 0 /\ xTodo = <<>> =>
             \A c \in CellNames :
                 IF CarriesInput(c, Unwrap(xMsg))
                 THEN /\ IsSome(xLastIn[c])
                      /\ Unwrap(xLastIn[c]).k = xReports
                      /\ xCells[c].expiry = Unwrap(xLastIn[c]).at + Window(c)
                 ELSE IsSome(xLastIn[c]) => Unwrap(xLastIn[c]).k < xReports)
    /\ [][\A c \in CellNames :
             xCells'[c] # xCells[c] =>
                 /\ IsSome(xMsg') /\ CarriesInput(c, Unwrap(xMsg'))
                 /\ xCells'[c].freshens <= xReports']_vars

\* an Observation without air temperature has freshened the station
\* pressure and, 16 s later, the relative humidity, but neither the
\* barometric pressure, the dew point nor the instant wind
C20_Witness ==
    /\ xReports > 0 /\ xTodo = <<>>
    /\ xCells["observation_relative_humidity"].expiry =
           xCells["observation_station_pressure"].expiry + 16
    /\ Unwrap(xMsg).variant = "Observation"
    /\ ~IsSome(Unwrap(xMsg).payload.air_temperature)
    /\ xCells["observation_station_pressure"].freshens = 1
    /\ xCells["observation_relative_humidity"].freshens = 1
    /\ xCells["observation_barometric_pressure"].freshens = 0
    /\ xCells["observation_dew_point"].freshens = 0
    /\ xCells["observation_temperature"] = CellsNew(0)["observation_temperature"]
    /\ xCells["instant_wind"] = CellsNew(0)["instant_wind"]

(***************************************************************************)
(* Properties of a scraped cell under interleaving (SpecPerishable).       *)
(***************************************************************************)
\* the scrape found the cell fresh and has taken the sample of every gauge
ScrapedFresh == rPc = "done" /\ rFresh

\* C19 as claimed, for a cell that has been freshened, in which the expiry
\* is stored before the value is set: whenever a scrape finds the cell
\* fresh, the value it exports was written from a message handled no longer
\* than the validity window before the scrape.
C19_Original ==
    (ScrapedFresh /\ IsSome(rLast)) =>
        \A i \in DOMAIN Unwrap(rOut) :
            LET g == Unwrap(rOut)[i]
            IN  /\ IsSome(g.src)
                /\ rNow - Unwrap(g.src).at <= Unwrap(g.src).d

\* C19 as amended: whenever a scrape finds the cell fresh, the expiry it
\* compared was stored by the freshen of a message handled no longer than
\* the validity window before the scrape, or the cell was never freshened
\* and the scrape read the clock at the instant of construction; every
\* gauge value it exports was set for that message or a later one, except
\* that a scrape taking samples after freshen stored the expiry and before
\* the last gauge is set may export, for a gauge, the value set before that
\* message.
C19_FreshExpiryNotFreshValue ==
    ScrapedFresh =>
        LET k == IF IsSome(rLast) THEN Unwrap(rLast).k ELSE 0
        IN  /\ IF IsSome(rLast)
               THEN rNow - Unwrap(rLast).at <= Unwrap(rLast).d
               ELSE rNow = 0
            /\ \A i \in DOMAIN Unwrap(rOut) :
                   LET g == Unwrap(rOut)[i]
                   IN  g.v >= k \/ (rGap /\ g.v = k - 1)

\* a scrape between two sets of the second wind message found the cell
\* fresh and exported the speed and direction of the second message with
\* the components of the first, older than the window
C19_Witness ==
    /\ ScrapedFresh /\ rGap /\ IsSome(rLast)
    /\ Unwrap(rLast).k = 2 /\ Len(Unwrap(rOut)) = 4
    /\ Unwrap(rOut)[1].v = 2 /\ Unwrap(rOut)[2].v = 2
    /\ Unwrap(rOut)[3].v = 1 /\ Unwrap(rOut)[4].v = 1
    /\ rNow - Unwrap(Unwrap(rOut)[4].src).at > Unwrap(Unwrap(rOut)[4].src).d

(***************************************************************************)
(* Properties of a decoded HubStatus (SpecDecode).                         *)
(***************************************************************************)
\* C21: a decoded HubStatus mirrors its raw record field by field: its
\* timestamp is the instant given by the raw timestamp field and its uptime
\* is the duration given by the raw uptime field.
C21_HubStatusMirrorsRaw ==
    (IsHub /\ IsOk(res)) =>
        LET h == res.msg.payload
            r == raw.payload
        IN  /\ h.serial_number = r.serial_number
            /\ h.firmware_revision = r.firmware_revision
            /\ h.rssi = r.rssi
            /\ h.seq = r.seq
            /\ DurationSeconds(r.uptime) = Ok(h.uptime)
            /\ DateTimeFromTimestamp(r.timestamp) = Ok(h.timestamp)

\* C22: a hub status whose reset_flags is the empty string decodes
\* successfully with all eight reset flags false.
C22_EmptyFlagsDecode ==
    (Decoded /\ IsHub /\ flagsIn = <<>>) =>
        /\ IsOk(res)
        /\ res.msg.payload.reset_flags = ResetFlagsDefault

(***************************************************************************)
(* publisher.rs: the Publisher's message channel, the sink task that       *)
(* drains it, handle_report and shutdown.  A message on the channel is     *)
(* named by the ordinal of the MsgSender::send call that offered it.       *)
(***************************************************************************)
CHANNEL_CAPACITY == 1024   \* mpsc::channel(1024)
MaxDrops     == 2   \* messages try_send refuses in one run of SpecPublisher
MaxRecvs     == 2   \* messages the sink task takes in one run
MaxShutdowns == 2   \* Publisher::shutdown calls in one run of SpecPublisher

\* a channel that takes a message whenever the receiver is alive
TrySendUnbounded(queue, closed, m) ==
    IF closed THEN [queue |-> queue, result |-> "Closed"]
    ELSE [queue |-> Append(queue, m), result |-> "Ok"]

\* mpsc::Sender::try_send on a channel of CHANNEL_CAPACITY slots
TrySend(queue, closed, m) ==
    IF closed THEN [queue |-> queue, result |-> "Closed"]
    ELSE IF Len(queue) >= CHANNEL_CAPACITY
    THEN [queue |-> queue, result |-> "Full"]
    ELSE [queue |-> Append(queue, m), result |-> "Ok"]

\* publish_wind: the topics of its three sends
PublishWind(prefix) ==
    <<prefix \o "/speed_magnitude_m_per_s", prefix \o "/source_direction_deg",
      prefix \o "/component_velocity_m_per_s">>

\* publish_to of each message variant: the topics of its sends, in the
\* order of the code; handle_report does nothing for the other variants
PublishSends(msg) ==
    CASE msg.variant = "PrecipEvent" -> <<"tempest/event/precip">>
      [] msg.variant = "StrikeEvent" -> <<"tempest/event/lightning">>
      [] msg.variant = "RapidWind" -> PublishWind("tempest/instant_wind")
      [] msg.variant = "Observation" ->
             <<"tempest/observation/timestamp">>
             \o PublishWind("tempest/observation/wind/lull")
             \o PublishWind("tempest/observation/wind/avg")
             \o PublishWind("tempest/observation/wind/gust")
             \o <<"tempest/observation/pressure/station_hpa",
                  "tempest/observation/pressure/barometric_hpa",
                  "tempest/observation/thermal/temperature_deg_c",
                  "tempest/observation/thermal/relative_humidity_pct",
                  "tempest/observation/thermal/dew_point_deg_c",
                  "tempest/observation/thermal/wet_bulb_temperature_deg_c",
                  "tempest/observation/thermal/apparent_temperature_deg_c",
                  "tempest/observation/solar/illuminance_lux",
                  "tempest/observation/solar/irradiance_w_per_m2",
                  "tempest/observation/solar/uv_index",
                  "tempest/observation/precip/previous_minute_rain_mm">>
      [] OTHER -> <<>>

\* Publisher::new: the channel, the oneshot and the sink task
PublisherNew ==
    /\ qMsgs = <<>> /\ qClosed = FALSE
    /\ shutdownTx = Some("shutdown_tx") /\ sigCount = 0
    /\ sinkGot = <<>> /\ pSends = 0 /\ pShutdowns = 0 /\ pLastSend = None
    /\ pDropped = {} /\ pTodo = <<>>

\* MsgSender::send: try_send(..).ok()
MsgSenderSend ==
    /\ LET m == pSends + 1
           r == TrySend(qMsgs, qClosed, m)
       IN  /\ qMsgs' = r.queue
           /\ pSends' = m
           /\ pLastSend' = Some([msg |-> m, result |-> r.result])
           /\ pDropped' = IF r.result = "Ok" THEN pDropped
                          ELSE pDropped \cup {m}
    /\ UNCHANGED <<qClosed, shutdownTx, sigCount, sinkGot, pShutdowns>>

\* Publisher::handle_report(&msg) is called: publish_to is entered
PublisherHandles(msg) ==
    /\ pTodo = <<>>
    /\ pHandled' = Append(pHandled, msg)
    /\ pTodo' = PublishSends(msg)
    /\ UNCHANGED <<qMsgs, qClosed, shutdownTx, sigCount, sinkGot, pSends,
                   pShutdowns, pLastSend, pDropped>>

\* the next sender.send(..) of publish_to
PublisherStep ==
    /\ pTodo # <<>>
    /\ MsgSenderSend
    /\ pTodo' = Tail(pTodo)
    /\ UNCHANGED pHandled

\* Publisher::shutdown: take() the sender and send(()) if it was there
PublisherShutdown ==
    /\ pShutdowns' = pShutdowns + 1
    /\ shutdownTx' = None
    /\ sigCount' = IF IsSome(shutdownTx) THEN sigCount + 1 ELSE sigCount
    /\ UNCHANGED <<qMsgs, qClosed, sinkGot, pSends, pLastSend, pDropped,
                   pTodo>>

(***************************************************************************)
(* SpecPublisher: sends, the sink task and shutdown calls on one           *)
(* Publisher, in any order.                                                *)
(***************************************************************************)
InitPublisher ==
    /\ raw = None /\ res = NotRun
    /\ rawIn = <<>> /\ decOut = <<>> /\ dropLog = <<>>
    /\ rawEnded = FALSE /\ decEnded = FALSE
    /\ ClockUnused /\ PerishableUnused /\ DeriveUnused /\ ExporterUnused
    /\ PumpUnused /\ MainUnused
    /\ PublisherNew

Send ==
    /\ Cardinality(pDropped) < MaxDrops
    /\ pSends < CHANNEL_CAPACITY + MaxDrops
    /\ MsgSenderSend
    /\ UNCHANGED <<notPubVars, pTodo>>

\* the sink task: message_rx.recv().await returned Some
SinkRecv ==
    /\ ~qClosed /\ qMsgs # <<>>
    /\ Len(sinkGot) < MaxRecvs
    /\ sinkGot' = Append(sinkGot, Head(qMsgs))
    /\ qMsgs' = Tail(qMsgs)
    /\ UNCHANGED <<notPubVars, qClosed, shutdownTx, sigCount, pSends,
                   pShutdowns, pLastSend, pDropped, pTodo>>

Shutdown ==
    /\ pShutdowns < MaxShutdowns
    /\ PublisherShutdown
    /\ UNCHANGED notPubVars

\* the task awaiting shutdown_rx aborts the sink task: message_rx is
\* dropped, which closes the channel and discards what it holds
SinkAbort ==
    /\ sigCount > 0 /\ ~qClosed
    /\ qClosed' = TRUE
    /\ qMsgs' = <<>>
    /\ UNCHANGED <<notPubVars, shutdownTx, sigCount, sinkGot, pSends,
                   pShutdowns, pLastSend, pDropped, pTodo>>

NextPublisher ==
    \/ Send
    \/ SinkRecv
    \/ Shutdown
    \/ SinkAbort

SpecPublisher == InitPublisher /\ [][NextPublisher]_vars

(***************************************************************************)
(* Properties of the Publisher's channel (SpecPublisher).                  *)
(***************************************************************************)
\* the messages that left the channel's head followed by those it holds
Conveyed == sinkGot \o qMsgs

\* C24: the queue never holds more than 1024 messages; a send on a full or
\* closed queue drops that one message and leaves the queue unchanged (a
\* step that drops a message changes neither the queue nor what the sink
\* got, and while the channel is open the queue and the sink hold exactly
\* the messages offered and not dropped); messages reach the sink in
\* enqueue order; shutdown delivers its signal at most once however many
\* times it is called.
C24_BoundedDropsOrderedOnce ==
    /\ [](/\ Len(qMsgs) <= 1024
          /\ \A i \in 1..(Len(Conveyed) - 1) : Conveyed[i] < Conveyed[i + 1]
          /\ {Conveyed[i] : i \in 1..Len(Conveyed)} \subseteq
                 (1..pSends) \ pDropped
          /\ ~qClosed => Len(Conveyed) = pSends - Cardinality(pDropped)
          /\ \A i \in 1..Len(sinkGot) : sinkGot[i] = i
          /\ sigCount <= 1
          /\ pShutdowns > 0 => (sigCount = 1 /\ shutdownTx = None))
    /\ [][/\ pDropped' # pDropped =>
                /\ qMsgs' = qMsgs /\ sinkGot' = sinkGot
                /\ pDropped' = pDropped \cup {pSends'}
                /\ (Len(qMsgs) = 1024 \/ qClosed)
          /\ (pSends' # pSends /\ (Len(qMsgs) = 1024 \/ qClosed)) =>
                /\ qMsgs' = qMsgs
                /\ pDropped' = pDropped \cup {pSends'}]_vars

\* the queue is full and refused message 1025, after the sink had taken one
\* message and the send after that was taken; shutdown was called twice
C24_Witness ==
    /\ Len(qMsgs) = 1024 /\ ~qClosed
    /\ sinkGot = <<1>>
    /\ pDropped = {1025}
    /\ pLastSend = Some([msg |-> 1026, result |-> "Ok"])
    /\ pShutdowns = 2 /\ sigCount = 1

(***************************************************************************)
(* main.rs from the startup loop on, with receiver.rs and reader.rs under  *)
(* the decoded stream.  SpecMain starts when main enters the startup loop, *)
(* with the Exporter and the Publisher as their constructors left them;    *)
(* each step of the socket is a poll of dec.next() that finds the socket   *)
(* Ready.  Both handle_report calls are taken one call on a metric or on   *)
(* the channel per step, beside the Publisher's sink task.  The scrapes of *)
(* the server task are the subject of SpecExport.                          *)
(***************************************************************************)
MaxEvents == 2   \* Ready results of the socket in one run of SpecMain

\* what UdpSocket::poll_recv_from returns Ready with
SocketError == [kind |-> "error"]
Datagram(b) == [kind |-> "datagram", bytes |-> b]

\* the bytes of a datagram: not UTF-8, or the UTF-8 of a text; a text is the
\* JSON of a raw message or something serde_json cannot read as one
InvalidUtf8 == [utf8 |-> FALSE]
Utf8(t) == [utf8 |-> TRUE, text |-> t]
NotJson == [json |-> None]
JsonOf(r) == [json |-> Some(r)]

\* std::str::from_utf8(readbuf.filled())
FromUtf8(b) == IF b.utf8 THEN Ok(b.text) ELSE Err(b, "Utf8Error")

\* impl Stream for Receiver, poll_next when the socket is Ready with ev
ReceiverPollNext(ev) ==
    IF ev.kind = "error"
    THEN None
    ELSE LET u == FromUtf8(ev.bytes)
         IN  IF IsOk(u) THEN Some(u.msg) ELSE None

\* the cause in the "Receiver terminated" warning
ReceiverWarning(ev) ==
    IF ev.kind = "error" THEN "socket error" ELSE "malformed JSON"

\* serde_json::from_str::<RawTempestMsg>(&json)
SerdeFromStr(json) ==
    IF IsSome(json.json) THEN Ok(Unwrap(json.json)) ELSE Err(json, "serde")

\* the closure of reader::new
ReaderClosure(json) ==
    LET p == SerdeFromStr(json)
    IN  IF IsOk(p) THEN Some(p.msg) ELSE None

\* dec.next() polled with the socket Ready with ev: the Receiver under the
\* two filter_maps.  "item": Some(msg) is returned; "end": None is
\* returned; "drop": a closure returned None and the poll goes on with the
\* socket; "panic": the decoder's closure panicked and the poll does not
\* return.
DecPoll(ev) ==
    LET rx == ReceiverPollNext(ev)
    IN  IF ~IsSome(rx)
        THEN [at |-> "end", rawmsg |-> None, msg |-> None]
        ELSE LET rd == ReaderClosure(Unwrap(rx))
             IN  IF ~IsSome(rd)
                 THEN [at |-> "drop", rawmsg |-> None, msg |-> None]
                 ELSE IF IsPanic(TempestMsgTryFrom(Unwrap(rd)))
                 THEN [at |-> "panic", rawmsg |-> rd, msg |-> None]
                 ELSE LET d == DecoderClosure(Unwrap(rd))
                      IN  [at |-> IF IsSome(d) THEN "item" ELSE "drop",
                           rawmsg |-> rd, msg |-> d]

\* the raw messages the station and the hub put on the wire in SpecMain
WireMsgs ==
    {RM("PrecipEvent", [serial_number |-> SerialNumber, hub_sn |-> HubSn,
                        evt |-> <<100>>]),
     RM("RapidWind", [serial_number |-> SerialNumber, hub_sn |-> HubSn,
                      ob |-> <<100, 7, 180>>]),
     RM("HubStatus", RawHubStatusOf(BOR \o <<",">> \o XYZ, 50, 100)),
     RM("HubStatus", RawHubStatusOf(BOR, I64.FAR, 100)),
     RM("Observation", RawObservationOf(0..17, 20))}

SocketEvents ==
    {SocketError, Datagram(InvalidUtf8), Datagram(Utf8(NotJson))} \cup
    {Datagram(Utf8(JsonOf(r))) : r \in WireMsgs}

\* a loop that looks at the shutdown signal before the publisher has run
PumpAfterChecksEarly(pc, signalled) ==
    CASE pc = "exporter" -> IF signalled THEN "stopped" ELSE "publisher"
      [] pc = "publisher" -> "check"
      [] pc = "check" -> IF signalled THEN "stopped" ELSE "await"
\* where the pump's loop body goes after each of its calls
PumpAfter(pc, signalled) ==
    CASE pc = "exporter" -> "publisher"
      [] pc = "publisher" -> "check"
      [] pc = "check" -> IF signalled THEN "stopped" ELSE "await"

\* main up to the startup loop: Publisher::new, Exporter::new, the streams
InitMain ==
    /\ raw = None /\ res = NotRun
    /\ rawIn = <<>> /\ decOut = <<>> /\ dropLog = <<>>
    /\ rawEnded = FALSE /\ decEnded = FALSE
    /\ ClockUnused /\ PerishableUnused /\ DeriveUnused
    /\ ExporterNew
    /\ mPc = "unspawned" /\ mMsg = None /\ mSignal = "unsent"
    /\ mainPc = "startup_await"
    /\ pHandled = <<>> /\ mTaken = <<>> /\ mTakenAfter = 0 /\ mSentAt = "none"
    /\ sMsg = None /\ alive = FALSE /\ serverUp = FALSE
    /\ sockIn = <<>> /\ rxEnds = <<>>
    /\ PublisherNew

\* what a Ready poll of the socket does to the streams, whoever polls
StreamPolled(ev, who) ==
    LET p == DecPoll(ev)
    IN  /\ sockIn' = Append(sockIn, ev)
        /\ rxEnds' = IF p.at = "end"
                     THEN Append(rxEnds, [cause |-> ReceiverWarning(ev),
                                          ev |-> ev, to |-> who])
                     ELSE rxEnds
        /\ IF IsSome(p.rawmsg)
           THEN LET r == Unwrap(p.rawmsg)
                    t == TempestMsgTryFrom(r)
                IN  /\ raw' = r
                    /\ res' = t
                    /\ rawIn' = Append(rawIn, r)
                    /\ dropLog' = IF IsErr(t) THEN Append(dropLog, t.raw)
                                  ELSE dropLog
           ELSE UNCHANGED <<raw, res, rawIn, dropLog>>
        /\ decOut' = IF p.at = "item" THEN Append(decOut, Unwrap(p.msg))
                     ELSE decOut
        /\ rawEnded' = (rawEnded \/ p.at = "end")
        /\ decEnded' = (decEnded \/ p.at = "end")

\* while let Some(msg) = dec.next().await, in the startup loop; a panic in
\* the poll unwinds through main
StartupRecv(ev) ==
    /\ mainPc = "startup_await"
    /\ Len(sockIn) < MaxEvents
    /\ StreamPolled(ev, "startup")
    /\ LET p == DecPoll(ev)
       IN  /\ sMsg' = p.msg
           /\ mainPc' = CASE p.at = "item"  -> "startup_exporter"
                          [] p.at = "drop"  -> "startup_await"
                          [] p.at = "end"   -> "online"
                          [] p.at = "panic" -> "panicked"
    /\ UNCHANGED <<notMainVars, expVars, alive, serverUp, mPc, mMsg, mSignal,
                   pHandled, mTaken, mTakenAfter, mSentAt>>

\* exporter.handle_report(&msg), in the startup loop: the call
StartupExporter ==
    /\ mainPc = "startup_exporter"
    /\ ExporterHandles(Unwrap(sMsg))
    /\ mainPc' = IF xTodo' = <<>> THEN "startup_publisher"
                 ELSE "startup_exporting"
    /\ UNCHANGED <<decVars, notMainVars, mainVars, mPc, mMsg, mSignal,
                   pHandled, mTaken, mTakenAfter, mSentAt>>

\* exporter.handle_report(&msg), in the startup loop: its next step
StartupExporterStep ==
    /\ mainPc = "startup_exporting"
    /\ ExporterStep
    /\ mainPc' = IF xTodo' = <<>> THEN "startup_publisher"
                 ELSE "startup_exporting"
    /\ UNCHANGED <<decVars, notMainVars, mainVars, mPc, mMsg, mSignal,
                   pHandled, mTaken, mTakenAfter, mSentAt>>

\* publisher.handle_report(&msg), in the startup loop: the call
StartupPublisher ==
    /\ mainPc = "startup_publisher"
    /\ PublisherHandles(Unwrap(sMsg))
    /\ mainPc' = IF pTodo' = <<>> THEN "startup_check"
                 ELSE "startup_publishing"
    /\ UNCHANGED <<decVars, clockVars, perVars, derVars, expVars, mainVars,
                   mPc, mMsg, mSignal, mTaken, mTakenAfter, mSentAt>>

\* publisher.handle_report(&msg), in the startup loop: its next send
StartupPublisherStep ==
    /\ mainPc = "startup_publishing"
    /\ PublisherStep
    /\ mainPc' = IF pTodo' = <<>> THEN "startup_check"
                 ELSE "startup_publishing"
    /\ UNCHANGED <<decVars, clockVars, perVars, derVars, expVars, mainVars,
                   mPc, mMsg, mSignal, mTaken, mTakenAfter, mSentAt>>

\* a startup loop that goes on after an Observation
StartupAfterKeepsLooping(msg) == "startup_await"
\* if let TempestMsg::Observation(_) = msg { break }
StartupAfter(msg) ==
    IF msg.variant = "Observation" THEN "online" ELSE "startup_await"

\* the rest of the startup loop's body
StartupCheck ==
    /\ mainPc = "startup_check"
    /\ alive' = TRUE
    /\ mainPc' = StartupAfter(Unwrap(sMsg))
    /\ sMsg' = None
    /\ UNCHANGED <<decVars, notMainVars, expVars, serverUp, sockIn, rxEnds,
                   mPc, mMsg, mSignal, pHandled, mTaken, mTakenAfter,
                   mSentAt>>

\* after the startup loop: the server task and the message pump task are
\* spawned and main waits in select!
GoOnline ==
    /\ mainPc = "online"
    /\ serverUp' = TRUE
    /\ mPc' = "await"
    /\ mainPc' = "select"
    /\ UNCHANGED <<decVars, notMainVars, expVars, sMsg, alive, sockIn, rxEnds,
                   mMsg, mSignal, pHandled, mTaken, mTakenAfter, mSentAt>>

\* if let Some(msg) = dec.next().await { .. } else { break }, in the pump;
\* a panic in the poll ends the pump task
PumpRecv(ev) ==
    /\ mPc = "await"
    /\ Len(sockIn) < MaxEvents
    /\ StreamPolled(ev, "pump")
    /\ LET p == DecPoll(ev)
       IN  /\ mMsg' = p.msg
           /\ mPc' = CASE p.at = "item"  -> "exporter"
                       [] p.at = "drop"  -> "await"
                       [] p.at = "end"   -> "stopped"
                       [] p.at = "panic" -> "panicked"
           /\ mTaken' = IF p.at = "item" THEN Append(mTaken, Unwrap(p.msg))
                        ELSE mTaken
           /\ mTakenAfter' = IF p.at = "item" /\ mSignal = "sent"
                             THEN mTakenAfter + 1 ELSE mTakenAfter
    /\ UNCHANGED <<notMainVars, expVars, sMsg, alive, serverUp, mSignal,
                   mainPc, pHandled, mSentAt>>

\* exporter.handle_report(&msg), in the pump: the call
PumpExporter ==
    /\ mPc = "exporter"
    /\ ExporterHandles(Unwrap(mMsg))
    /\ mPc' = IF xTodo' = <<>> THEN PumpAfter("exporter", mSignal = "sent")
              ELSE "exporting"
    /\ UNCHANGED <<decVars, notMainVars, mainVars, mMsg, mSignal, mainPc,
                   pHandled, mTaken, mTakenAfter, mSentAt>>

\* exporter.handle_report(&msg), in the pump: its next step
PumpExporterStep ==
    /\ mPc = "exporting"
    /\ ExporterStep
    /\ mPc' = IF xTodo' = <<>> THEN PumpAfter("exporter", mSignal = "sent")
              ELSE "exporting"
    /\ UNCHANGED <<decVars, notMainVars, mainVars, mMsg, mSignal, mainPc,
                   pHandled, mTaken, mTakenAfter, mSentAt>>

\* publisher.handle_report(&msg), in the pump: the call
PumpPublisher ==
    /\ mPc = "publisher"
    /\ PublisherHandles(Unwrap(mMsg))
    /\ mPc' = IF pTodo' = <<>> THEN PumpAfter("publisher", mSignal = "sent")
              ELSE "publishing"
    /\ UNCHANGED <<decVars, clockVars, perVars, derVars, expVars, mainVars,
                   mMsg, mSignal, mainPc, mTaken, mTakenAfter, mSentAt>>

\* publisher.handle_report(&msg), in the pump: its next send
PumpPublisherStep ==
    /\ mPc = "publishing"
    /\ PublisherStep
    /\ mPc' = IF pTodo' = <<>> THEN PumpAfter("publisher", mSignal = "sent")
              ELSE "publishing"
    /\ UNCHANGED <<decVars, clockVars, perVars, derVars, expVars, mainVars,
                   mMsg, mSignal, mainPc, mTaken, mTakenAfter, mSentAt>>

\* message_pump_shutdown_rx.try_recv().is_ok(): break, or the next turn
PumpCheck ==
    /\ mPc = "check"
    /\ mPc' = PumpAfter("check", mSignal = "sent")
    /\ mSignal' = IF mSignal = "sent" THEN "received" ELSE mSignal
    /\ mMsg' = None
    /\ UNCHANGED <<decVars, notMainVars, expVars, mainVars, mainPc, pHandled,
                   mTaken, mTakenAfter, mSentAt>>

\* main: select! returns (interrupt, server exit or pump exit),
\* server_shutdown_tx.send(()).ok() and
\* message_pump_shutdown_tx.send(()).ok(); the send fails when the pump has
\* left its loop, or has panicked, and dropped the receiver
MainShutdown ==
    /\ mainPc = "select"
    /\ mainPc' = "signalled"
    /\ mSignal' = IF mPc \in {"stopped", "panicked"} THEN mSignal ELSE "sent"
    /\ mSentAt' = mPc
    /\ UNCHANGED <<decVars, notMainVars, expVars, mainVars, mPc, mMsg,
                   pHandled, mTaken, mTakenAfter>>

\* main: publisher.shutdown()
MainPublisherShutdown ==
    /\ mainPc = "signalled"
    /\ PublisherShutdown
    /\ mainPc' = "sleeping"
    /\ UNCHANGED <<decVars, clockVars, perVars, derVars, expVars, mainVars,
                   mPc, mMsg, mSignal, pHandled, mTaken, mTakenAfter,
                   mSentAt>>

\* main returns after its sleep and the runtime shuts down: a task is
\* dropped where it awaits, a running one first runs to its next await
MainExit ==
    /\ mainPc = "sleeping"
    /\ mPc \in {"await", "stopped", "panicked"}
    /\ mainPc' = "exited"
    /\ mPc' = IF mPc = "await" THEN "cancelled" ELSE mPc
    /\ UNCHANGED <<decVars, notMainVars, expVars, mainVars, mMsg, mSignal,
                   pHandled, mTaken, mTakenAfter, mSentAt>>

NextMain ==
    \/ \E ev \in SocketEvents : StartupRecv(ev)
    \/ StartupExporter
    \/ StartupExporterStep
    \/ StartupPublisher
    \/ StartupPublisherStep
    \/ StartupCheck
    \/ GoOnline
    \/ \E ev \in SocketEvents : PumpRecv(ev)
    \/ PumpExporter
    \/ PumpExporterStep
    \/ PumpPublisher
    \/ PumpPublisherStep
    \/ PumpCheck
    \/ SinkRecv
    \/ MainShutdown
    \/ MainPublisherShutdown
    \/ SinkAbort
    \/ MainExit

SpecMain == InitMain /\ [][NextMain]_vars

(***************************************************************************)
(* Properties of main from the startup loop on (SpecMain).                 *)
(***************************************************************************)
\* the messages the startup loop took from the stream: those the stream
\* yielded that the pump did not take
StartupTaken == SubSeq(decOut, 1, Len(decOut) - Len(mTaken))

\* a message is in flight between dec.next() and the end of the loop body
InFlight ==
    \/ mainPc \in {"startup_exporter", "startup_exporting",
                   "startup_publisher", "startup_publishing", "startup_check"}
    \/ mPc \in {"exporter", "exporting", "publisher", "publishing", "check"}

\* the pump is between two turns of its loop, or has left it
PumpBetweenMessages == mPc \in {"await", "stopped", "cancelled", "panicked"}

\* how many sends Publisher::handle_report makes for the messages
RECURSIVE SendsFor(_)
SendsFor(msgs) ==
    IF msgs = <<>> THEN 0
    ELSE Len(PublishSends(Head(msgs))) + SendsFor(Tail(msgs))

\* every message the decoder yielded went to the exporter and then to the
\* publisher once, in the order yielded, across the handover
HandledInOrder ==
    /\ Len(pHandled) <= Len(decOut)
    /\ pHandled = SubSeq(decOut, 1, Len(pHandled))
    /\ xReports \in {Len(pHandled), Len(pHandled) + 1}
    /\ xReports <= Len(decOut)
    /\ xReports > 0 => xMsg = Some(decOut[xReports])
    /\ Len(decOut) - Len(pHandled) <= 1
    /\ xTodo # <<>> => xReports = Len(pHandled) + 1
    /\ pTodo # <<>> => (xTodo = <<>> /\ xReports = Len(pHandled))
    /\ pSends + Len(pTodo) = SendsFor(pHandled)
    /\ ~InFlight =>
           /\ pHandled = decOut /\ xReports = Len(decOut)
           /\ xTodo = <<>> /\ pTodo = <<>>
    /\ Len(mTaken) <= Len(decOut)
    /\ decOut = StartupTaken \o mTaken
    /\ \A i \in 1..Len(StartupTaken) :
           StartupTaken[i].variant = "Observation" => i = Len(StartupTaken)

ObservationHandled ==
    \E i \in 1..Len(pHandled) : pHandled[i].variant = "Observation"

\* dec.next() returned None to the startup loop
EndedInStartup == \E i \in 1..Len(rxEnds) : rxEnds[i].to = "startup"

\* the control flow of the pump: it is between messages only when every
\* message taken went through both handle_report calls to their last step;
\* the signal is received only by the check that follows a handled message;
\* at most one message is taken after the signal was sent
PumpHandlesWholeMessages ==
    /\ PumpBetweenMessages =>
           /\ pHandled = decOut /\ xReports = Len(decOut)
           /\ xTodo = <<>> /\ pTodo = <<>>
           /\ pSends = SendsFor(decOut)
    /\ (xReports > 0 /\ xReports <= Len(decOut)) => xMsg = Some(decOut[xReports])
    /\ mSignal = "received" =>
           /\ mPc = "stopped"
           /\ mTaken # <<>> /\ pHandled = decOut /\ xReports = Len(decOut)
    /\ mTakenAfter <= 1

C23_Original ==
    /\ HandledInOrder
    /\ serverUp => ObservationHandled

\* C23 as amended: every message the decoder yields is passed to the
\* exporter and then to the publisher exactly once, in the order yielded,
\* across the handover from the startup loop to the pump; the startup loop
\* handles no message after its first Observation; the metrics server is
\* started only after the first Observation has been handled or after the
\* stream returned None to the startup loop, and in that case the pump
\* polls the stream again.
C23_HandledOnceServerAfterStartup ==
    /\ HandledInOrder
    /\ serverUp =>
          /\ mPc # "unspawned"
          /\ alive \/ EndedInStartup
          /\ ObservationHandled \/ EndedInStartup
          /\ ~EndedInStartup =>
                 StartupTaken[Len(StartupTaken)].variant = "Observation"
          /\ EndedInStartup =>
                 \A i \in 1..Len(StartupTaken) :
                     StartupTaken[i].variant # "Observation"

\* the startup loop handled the first Observation, the server was started,
\* and the pump handled the next message
C23_Witness ==
    /\ serverUp /\ ~EndedInStartup /\ mPc = "await"
    /\ Len(StartupTaken) = 1 /\ Len(mTaken) = 1
    /\ pHandled = decOut /\ xReports = 2
    /\ decOut[1].variant = "Observation"
    /\ xTodo = <<>> /\ pTodo = <<>>
    /\ pSends = SendsFor(decOut)

\* C25: a datagram that is not valid UTF-8, or is not a parseable message,
\* is dropped and the receive stream goes on; only a socket error makes
\* the receive stream, and with it the decoded stream and the pump, end;
\* no message received ends the pump or main in a panic.
C25_OnlySocketErrorEnds ==
    /\ \A i \in 1..Len(rxEnds) : rxEnds[i].ev.kind = "error"
    /\ (mPc = "stopped" /\ mSignal # "received") =>
           sockIn[Len(sockIn)].kind = "error"
    /\ decEnded => \E i \in 1..Len(sockIn) : sockIn[i].kind = "error"
    /\ mPc # "panicked" /\ mainPc # "panicked"
====
